---- MODULE Spec2Model ----
(***************************************************************************)
(* SwarmGrid edge agent: the orchestrator main loop (src/main.py), the     *)
(* live frame source (src/ingestion/rtsp_client.py) and the telemetry      *)
(* transport (src/transport/backend_client.py).                            *)
(*                                                                         *)
(* The agent is a single asyncio process.  Two tasks touch the state       *)
(* modelled here: "main" runs EdgeAgent.start(), "stop" runs               *)
(* EdgeAgent.stop() (created by the signal handler).  A task runs without  *)
(* interruption until it suspends at an await that really waits (a POST,   *)
(* a sleep, an executor call, a held lock), so every action below is the   *)
(* code between two such suspension points.                                *)
(***************************************************************************)
EXTENDS Integers, Sequences, FiniteSets, TLC

(* ------------------------------ bounds -------------------------------- *)
MaxBatch == 2
MaxRetry == 2
MaxSamples == 3
MaxErrors == 6
MaxCalls == 3
MaxScalar == 2
MaxSyncs == 2
MaxOps == 3
MaxFrames == 3
MaxCoord == 2

(* ------------------------- program constants -------------------------- *)
max_backoff == 60
base_backoff == 1
ReconnectThreshold == 3
\* line 199: asyncio.sleep(0.5), in tenths of a second
ValidationPause == 5
\* ZoneSyncConfig.retry_attempts: main.py constructs the client without a
\* config, so the default is what every cycle runs with
zone_sync_retry_attempts == 3

Tasks == {"main", "stop"}

\* settings.zone_id, the implicit camera-level zone
DefaultZone == "zone-01"

\* ---- zones ----
ZoneIds == {"z1", "z2"}
\* a "name": null in a record of the response
NullName == "null"
\* polygons of a response, coordinates in half pixels (5 is 2.5 px, -3 is
\* -1.5 px): whole pixels, another one of whole pixels, fractional ones
WholePolygon == <<(<<0, 0>>), (<<4, 0>>), (<<0, 4>>)>>
OtherPolygon == <<(<<2, 2>>), (<<6, 2>>), (<<2, 6>>)>>
FractionalPolygon == <<(<<-3, 0>>), (<<5, 0>>), (<<0, 4>>)>>
\* maxCapacity and the two thresholds (in percent) of a record
DefaultProfile == [maxCapacity |-> 100, yellowThreshold |-> 50, redThreshold |-> 75]
TightProfile == [maxCapacity |-> 40, yellowThreshold |-> 60, redThreshold |-> 90]
\* name, polygon and profile of the records a response is made of: a plain
\* one, one with another polygon and other thresholds, one with fractional
\* coordinates, one with a null name
RecordShapes ==
    {<<"hall", WholePolygon, DefaultProfile>>, <<"hall", OtherPolygon, TightProfile>>,
     <<"hall", FractionalPolygon, DefaultProfile>>, <<NullName, WholePolygon, DefaultProfile>>}
\* one record of GET /api/zone/by-camera/{camera_id}
ZoneRecords ==
    {[zoneId |-> id, name |-> h[1], polygon |-> h[2], maxCapacity |-> h[3].maxCapacity,
      yellowThreshold |-> h[3].yellowThreshold, redThreshold |-> h[3].redThreshold] :
        id \in ZoneIds, h \in RecordShapes}
\* the body of a 200 response: up to two records
ZoneBodies ==
    {<<>>} \cup {<<a>> : a \in ZoneRecords}
           \cup {<<a, b>> : a \in ZoneRecords, b \in ZoneRecords}

\* Zone(zone_id, name, polygon, max_capacity, yellow_threshold, red_threshold),
\* polygon in pixels
PlainZone(id) ==
    [zone_id |-> id, name |-> "hall", polygon |-> <<(<<0, 0>>), (<<2, 0>>), (<<0, 2>>)>>,
     max_capacity |-> 100, yellow_threshold |-> 50, red_threshold |-> 75]

\* what the startup zone sync leaves in the registry: nothing, one zone, two
\* zones
ZoneConfigs == {<<>>, <<PlainZone("z1")>>, <<PlainZone("z1"), PlainZone("z2")>>}

\* the three optional subsystems and their enabled flags
Features == {"provisioning", "update", "zone_sync"}
AllEnabled == [f \in Features |-> TRUE]

\* the background tasks of start() and the flag each one depends on
BackgroundTasks == {"heartbeat", "zone_sync_timer", "update_check_timer"}
TaskFeature(b) ==
    CASE b = "heartbeat" -> "provisioning"
      [] b = "zone_sync_timer" -> "zone_sync"
      [] OTHER -> "update"
NoTasks == [b \in BackgroundTasks |-> "none"]

\* self.update_manager is None (device_id 0 stands for None)
NoUpdateManager == [constructed |-> FALSE, device_id |-> 0]

\* what the backend (or the network) answers to one POST
StatusCodes == {200, 204, 404, 500}
Responses ==
    {[kind |-> "status", code |-> c] : c \in StatusCodes}
        \cup {[kind |-> k, code |-> 0] : k \in {"timeout", "connect", "error"}}
NoResponse == [kind |-> "none", code |-> 0]

\* TelemetryPayload (feature_builder.py): the fields the extractor fills.
\* Scalars stand for the rounded floats; alignment and the two ids of the
\* deployment are the same in every sample.
NoFeatures == [none |-> TRUE]
Payload(zone, ts, dens, count) ==
    [tenant_id |-> "tenant", site_id |-> "site", camera_id |-> "cam",
     zone_id |-> zone, timestamp |-> ts, density |-> dens, avg_speed |-> dens,
     speed_variance |-> 0, flow_entropy |-> dens, alignment |-> 0,
     bottleneck_index |-> 0, person_count |-> count]

IdleFrame == [pc |-> "idle", todo |-> <<>>, dispatched |-> <<>>, extracts |-> 0,
              handed |-> <<>>]
IdleVideo == [pc |-> "idle", file_frames |-> 0, frame_count |-> 0, connected |-> FALSE,
              total_frames |-> 0, current_frame |-> 0, completed |-> FALSE]
IdleGeo == [pc |-> "idle", polygon |-> <<>>, x |-> 0, y |-> 0, k |-> 0, inside |-> FALSE,
            mask |-> {}, raised |-> FALSE]

VARIABLES
    (* configuration and zone registry *)
    batch_size, retry_attempts, zones, enabled,
    (* tasks *)
    pc,
    (* EdgeAgent *)
    running, consecutive_errors, backoff_time, todo, pause,
    update_manager, background_tasks, components_stopped,
    (* DeviceStore and DeviceProvisioning *)
    store_file, store_cache, credentials, provPc, ens,
    (* RTSPClient *)
    connected, cap,
    (* BackendClient *)
    buffer, lock, client, fl,
    (* UpdateManager._deep_merge: one call *)
    mg,
    (* ZoneSyncClient.sync_zones: position and locals of the running cycle *)
    syncPc, sy, syncs,
    (* UpdateManager: _pending_update, settings.yaml and its backups,
       settings.update.auto_apply, position and locals of each caller *)
    pending_update, config_file, backup_files, auto_apply, upc, ul,
    (* history of the UpdateManager *)
    lastApply, lastDiscovered, appliedSince, overwritten, ops,
    (* EdgeAgent._process_frame: one frame and the samples handed on *)
    pf,
    (* VideoFileClient and process_video *)
    vp,
    (* Zone.contains_point and Zone.get_mask: one polygon, one point *)
    geo,
    (* the background loops: their _running flags and the stop signal *)
    loops,
    (* history *)
    nextId, dropped, connStreak, closeLog, startupLog, lastId, issued, calls

configVars == <<batch_size, retry_attempts, enabled>>
lifecycleVars == <<zones, update_manager, background_tasks, components_stopped, startupLog>>
provVars == <<store_file, store_cache, credentials, provPc, ens, lastId, issued, calls>>
agentVars == <<running, consecutive_errors, backoff_time, todo>>
sourceVars == <<connected, cap>>
transportVars == <<buffer, lock, client, fl>>
historyVars == <<nextId, dropped, connStreak, closeLog>>
mergeVars == <<mg>>
syncVars == <<syncPc, sy, syncs>>
updateVars == <<pending_update, config_file, backup_files, auto_apply, upc, ul>>
updateHistory == <<lastApply, lastDiscovered, appliedSince, overwritten, ops>>
sideVars == <<pf, vp, geo, loops>>
extVars == <<mergeVars, syncVars, updateVars, updateHistory, sideVars>>
vars == <<configVars, lifecycleVars, provVars, extVars, pause, pc, agentVars, sourceVars,
          transportVars, historyVars>>

\* the locals of one _flush_buffer call
IdleFlush ==
    [payloads |-> <<>>, attempt |-> 0, posts |-> 0, waits |-> <<>>,
     last |-> NoResponse, transient |-> TRUE, result |-> FALSE]

NoClose == [taken |-> FALSE, snap |-> <<>>, flushed |-> FALSE, released |-> FALSE, posts |-> 0]

Range(s) == {s[i] : i \in 1..Len(s)}

Min(a, b) == IF a < b THEN a ELSE b

\* DeviceCredentials; device_id 0 stands for "no credentials" (None)
NoCreds == [device_id |-> 0, device_secret |-> 0, registered |-> FALSE]

\* the credentials a device store may hold from an earlier run
StoredCreds(reg) == [device_id |-> 1, device_secret |-> 1, registered |-> reg]

\* the device store file: missing, unreadable, or holding credentials
NoFile == [state |-> "absent", creds |-> NoCreds]
CorruptFile == [state |-> "corrupt", creds |-> NoCreds]
FileWith(c) == [state |-> "ok", creds |-> c]
StoreFiles == {NoFile, CorruptFile, FileWith(StoredCreds(FALSE)), FileWith(StoredCreds(TRUE))}

\* the locals of one ensure_registered call
IdleCall ==
    [validation |-> NoResponse, registration |-> NoResponse, posts |-> 0,
     result |-> "none", device_id |-> 0]

(* ----------------------- configuration trees -------------------------- *)
\* A YAML / JSON value: a scalar, or a mapping from keys to values.
Keys == {"a", "b"}
NoKids == [k \in {} |-> 0]
Leaf(v) == [leaf |-> TRUE, val |-> v, kids |-> NoKids]
Dict(f) == [leaf |-> FALSE, val |-> 0, kids |-> f]
EmptyDict == Dict(NoKids)
Leaves == {Leaf(v) : v \in 1..MaxScalar}
DictsOver(values) == {Dict(f) : f \in UNION {[S -> values] : S \in SUBSET Keys}}
\* mappings of scalars, and mappings of scalars and of such mappings
FlatDicts == DictsOver(Leaves)
NestedDicts == DictsOver(Leaves \cup FlatDicts)

\* no _deep_merge call made
IdleMerge ==
    [base |-> EmptyDict, patch |-> EmptyDict, result |-> EmptyDict,
     again |-> EmptyDict, done |-> FALSE]

\* no sync_zones cycle running
IdleSync ==
    [attempt |-> 0, gets |-> 0, waits |-> <<>>, last |-> NoResponse,
     result |-> "none", logged |-> "none", before |-> <<>>, data |-> <<>>]

\* ---- updates ----
\* the background loop of start_background_check and the control surface
\* (POST /update/check, POST /update/apply)
Callers == {"timer", "api"}
\* UpdateManager.CURRENT_VERSION "1.0.0"; the versions the backend offers
\* are 1 and 2
CURRENT_VERSION == 0
\* config_patch is None
NoPatch == [leaf |-> TRUE, val |-> 0, kids |-> NoKids]
PatchA == Dict([k \in {"a"} |-> Leaf(1)])
PatchB == Dict([k \in {"a"} |-> Leaf(2)])
\* _pending_update is None
NoUpdate == [version |-> 0, config_patch |-> NoPatch]
\* the UpdateInfo objects a check can build: two with a patch, one with an
\* empty patch, one with none
Updates ==
    {[version |-> 1, config_patch |-> PatchA], [version |-> 2, config_patch |-> PatchB],
     [version |-> 1, config_patch |-> EmptyDict], [version |-> 2, config_patch |-> NoPatch]}
\* what GET /api/update/check comes to: an update, no update, a status other
\* than 200 or an exception
CheckResponses ==
    {[kind |-> "update", update |-> u] : u \in Updates}
        \cup {[kind |-> k, update |-> NoUpdate] : k \in {"none", "fail"}}
\* settings.yaml: absent, or holding a tree
NoConfig == [exists |-> FALSE, tree |-> EmptyDict]
ConfigWith(t) == [exists |-> TRUE, tree |-> t]
\* config_path.with_suffix(".yaml.bak")
BackupPath == "settings.yaml.bak"
NoBackups == [n \in {} |-> EmptyDict]
\* where apply_config_update can raise: nowhere, reading the file, writing it
Faults == {"none", "read", "write"}
\* no POST /api/update/report
NoReport == [deviceId |-> 0, fromVersion |-> 0, toVersion |-> 0, success |-> FALSE]
\* locals of apply_pending_update; interfered: _pending_update was assigned
\* by another call while this one awaited its report
IdleApply == [update |-> NoUpdate, success |-> FALSE, report |-> NoReport, interfered |-> FALSE]
\* no apply_pending_update has returned; before and after: _pending_update
\* when the call reaches lines 243-244 and when it returns
NoApply ==
    [seq |-> 0, caller |-> "none", update |-> NoUpdate, success |-> FALSE,
     report |-> NoReport, interfered |-> FALSE, before |-> NoUpdate, after |-> NoUpdate]

InitIdleUpdate ==
    /\ pending_update = NoUpdate
    /\ config_file = NoConfig
    /\ backup_files = NoBackups
    /\ auto_apply = FALSE
    /\ upc = [c \in Callers |-> "idle"]
    /\ ul = [c \in Callers |-> IdleApply]
    /\ lastApply = NoApply
    /\ lastDiscovered = NoUpdate
    /\ appliedSince = FALSE
    /\ overwritten = {}
    /\ ops = 0

\* the components a specification leaves idle
InitIdleMerge == mg = IdleMerge
InitIdleSync == syncPc = "idle" /\ sy = IdleSync /\ syncs = 0
\* before _initialize: no credentials loaded, no UpdateManager
InitNoIdentity == update_manager = NoUpdateManager /\ credentials = NoCreds
\* zones_at_stop, pending_at_stop, config_at_stop: the registry, the pending
\* update and settings.yaml when stop() of the component was called
IdleLoops == [sync_running |-> FALSE, update_running |-> FALSE,
              sync_stopped |-> FALSE, update_stopped |-> FALSE,
              zones_at_stop |-> <<>>, pending_at_stop |-> NoUpdate,
              config_at_stop |-> NoConfig]

InitIdleFrame == pf = IdleFrame
InitIdleVideo == vp = IdleVideo
InitIdleGeo == geo = IdleGeo
InitIdleLoops == loops = IdleLoops
InitIdleSide == InitIdleFrame /\ InitIdleVideo /\ InitIdleGeo /\ InitIdleLoops

InitIdle == InitIdleMerge /\ InitIdleSync /\ InitIdleUpdate /\ InitNoIdentity /\ InitIdleSide

InitBase ==
    /\ batch_size \in 1..MaxBatch
    /\ retry_attempts \in 0..MaxRetry
    /\ zones = <<>>
    /\ pc = [t \in Tasks |-> IF t = "main" THEN "init" ELSE "idle"]
    /\ running = FALSE
    /\ consecutive_errors = 0
    /\ backoff_time = 0
    /\ todo = <<>>
    /\ pause = 0
    /\ background_tasks = NoTasks
    /\ components_stopped = FALSE
    /\ connected = FALSE
    /\ cap = "none"
    /\ buffer = <<>>
    /\ lock = "none"
    /\ client = FALSE
    /\ fl = [t \in Tasks |-> IdleFlush]
    /\ store_cache = NoCreds
    /\ provPc = "idle"
    /\ ens = IdleCall
    /\ nextId = 1
    /\ dropped = {}
    /\ connStreak = 0
    /\ closeLog = NoClose
    /\ startupLog = <<>>
    /\ lastId = 1
    /\ issued = {}
    /\ calls = 0

\* an agent with the default settings (every subsystem enabled) on a device
\* that was provisioned by an earlier run
Init ==
    /\ InitBase
    /\ InitIdle
    /\ enabled = AllEnabled
    /\ store_file = FileWith(StoredCreds(TRUE))

\* any settings, any device store
InitLifecycle ==
    /\ InitBase
    /\ InitIdle
    /\ enabled \in [Features -> BOOLEAN]
    /\ store_file \in StoreFiles

\* any device store, provisioning enabled or not
InitProvisioning ==
    /\ InitBase
    /\ InitIdle
    /\ enabled \in {AllEnabled, [AllEnabled EXCEPT !["provisioning"] = FALSE]}
    /\ store_file \in StoreFiles

(* ====================== BackendClient (transport) ===================== *)

\* line 94: the only status taken as success
IsSuccessStatus(code) == code = 200

\* a retry rule that also retries client errors
IsServerErrorFrom400(code) == code >= 400

\* line 97: the statuses that are retried
IsServerError(code) == code >= 500

\* lines 97-111: a 5xx status, a timeout or a connection error is retried
IsRetried(r) ==
    \/ r.kind \in {"timeout", "connect"}
    \/ r.kind = "status" /\ ~IsSuccessStatus(r.code) /\ IsServerError(r.code)

\* a linear backoff, 2 * attempt
BackoffLinear(attempt) == 2 * attempt

\* lines 100, 108, 111: asyncio.sleep(2 ** attempt)
BackoffSeconds(attempt) == 2 ^ attempt

\* a threshold that fires one sample late
BufferOverFull(buf) == Len(buf) > batch_size

\* line 67: len(self._buffer) >= batch_size
BufferFull(buf) == Len(buf) >= batch_size

\* a snapshot that misses the newest sample
SnapshotWithoutLast(buf) == SubSeq(buf, 1, Len(buf) - 1)

\* line 77: payloads = self._buffer.copy()
Snapshot(buf) == buf

\* a flush that does not clear the buffer
BufferKept(buf) == buf

\* line 78: self._buffer.clear()
BufferAfterSnapshot(buf) == <<>>

\* a failed flush that puts the batch back at the head of the buffer
BufferRequeued(buf, payloads) == payloads \o buf

\* lines 104, 115, 119: a failed flush returns False and leaves the buffer alone
BufferAfterFailure(buf, payloads) == buf

\* _flush_buffer returns f.result; the task is then back in its caller,
\* which still holds the lock
FlushReturns(t, f, buf) ==
    /\ fl' = [fl EXCEPT ![t] = f]
    /\ pc' = [pc EXCEPT ![t] = "flush_ret"]
    /\ buffer' = IF f.result THEN buf ELSE BufferAfterFailure(buf, f.payloads)
    /\ dropped' = IF f.result THEN dropped ELSE dropped \cup Range(f.payloads)

\* _flush_buffer from its entry to the first POST (or to its return)
FlushBuffer(t, buf) ==
    IF buf = <<>>
    THEN /\ client' = client
         /\ FlushReturns(t, [IdleFlush EXCEPT !.result = TRUE], buf)
    ELSE LET f == [IdleFlush EXCEPT !.payloads = Snapshot(buf)] IN
         /\ client' = TRUE
         /\ IF retry_attempts > 0
            THEN /\ fl' = [fl EXCEPT ![t] = [f EXCEPT !.posts = 1]]
                 /\ pc' = [pc EXCEPT ![t] = "flush_post"]
                 /\ buffer' = BufferAfterSnapshot(buf)
                 /\ dropped' = dropped
            ELSE FlushReturns(t, f, BufferAfterSnapshot(buf))

\* the answer to the POST in flight arrives
PostResponse(t, r) ==
    /\ pc[t] = "flush_post"
    /\ LET f == [fl[t] EXCEPT
                    !.last = r,
                    !.transient = @ /\ (\/ r.kind \in {"timeout", "connect"}
                                        \/ r.kind = "status" /\ r.code >= 500 /\ r.code <= 599)]
       IN
       IF r.kind = "status" /\ IsSuccessStatus(r.code)
       THEN FlushReturns(t, [f EXCEPT !.result = TRUE], buffer)
       ELSE IF IsRetried(r)
       THEN /\ fl' = [fl EXCEPT ![t] =
                        [f EXCEPT !.waits = Append(@, BackoffSeconds(f.attempt))]]
            /\ pc' = [pc EXCEPT ![t] = "flush_sleep"]
            /\ UNCHANGED <<buffer, dropped>>
       ELSE FlushReturns(t, f, buffer)
    /\ UNCHANGED <<configVars, extVars, lifecycleVars, provVars, pause, agentVars, sourceVars, lock, client, nextId, connStreak, closeLog>>

\* the backoff sleep ends: next attempt of the loop, or "all retries failed"
FlushWake(t) ==
    /\ pc[t] = "flush_sleep"
    /\ LET f == [fl[t] EXCEPT !.attempt = @ + 1] IN
       IF f.attempt < retry_attempts
       THEN /\ fl' = [fl EXCEPT ![t] = [f EXCEPT !.posts = @ + 1]]
            /\ pc' = [pc EXCEPT ![t] = "flush_post"]
            /\ UNCHANGED <<buffer, dropped>>
       ELSE FlushReturns(t, f, buffer)
    /\ UNCHANGED <<configVars, extVars, lifecycleVars, provVars, pause, agentVars, sourceVars, lock, client, nextId, connStreak, closeLog>>

\* A task holds the processor from one suspension point to the next: the
\* positions below are not suspension points, so no other task runs there.
Transient == {"loop", "process", "flush_ret"}
Runnable(t) == \A u \in Tasks \ {t} : pc[u] \notin Transient

\* asyncio.Lock: free and nobody queued before t
LockFree(t) ==
    /\ lock = "none"
    /\ \A u \in Tasks \ {t} : pc[u] \notin {"send_wait", "close_wait"}

(* ============================= RTSPClient ============================= *)

ConnectOutcomes == {"opened", "not_opened", "exception"}

\* connect(): the new capture object and the connected flag
CapAfterConnect(o) ==
    CASE o = "opened" -> "open"
      [] o = "not_opened" -> "closed"
      [] OTHER -> cap
ConnectedAfterConnect(o) == IF o = "opened" THEN TRUE ELSE connected

(* ================ EdgeAgent._initialize (startup steps) ================ *)

\* start() line 133: _initialize has returned, rtsp_client.connect() is
\* awaited
ToConnect(log) == [pc |-> "connecting", log |-> Append(log, "connect_started")]

\* a Step 5 that does not wait for the zone sync it started
FromZoneSyncClientNoWait(log) ==
    LET l == Append(log, "zone_sync_constructed") IN
    IF enabled["zone_sync"]
    THEN ToConnect(Append(l, "zone_sync_started"))
    ELSE ToConnect(l)

\* _initialize lines 93-110: Step 4 constructs the ZoneSyncClient, Step 5
\* awaits sync_zones() when zone sync is enabled
FromZoneSyncClient(log) ==
    LET l == Append(log, "zone_sync_constructed") IN
    IF enabled["zone_sync"]
    THEN [pc |-> "zone_sync", log |-> Append(l, "zone_sync_started")]
    ELSE ToConnect(l)

\* _initialize lines 79-91: Step 2 constructs the UpdateManager, Step 3
\* awaits check_for_updates() when updates are enabled
FromUpdateManager(log) ==
    LET l == Append(log, "update_manager_constructed") IN
    IF enabled["update"]
    THEN [pc |-> "update_check", log |-> Append(l, "update_check_started")]
    ELSE FromZoneSyncClient(l)

(* ================== DeviceStore and DeviceProvisioning ================= *)

\* DeviceStore.generate_device_id / generate_device_secret: a fresh value
\* each time, n being the last value handed out
GeneratedCredentials(n) ==
    [device_id |-> n + 1, device_secret |-> n + 1, registered |-> FALSE]

\* DeviceStore.load: the cached object, else the parsed file, else None
LoadedCredentials ==
    IF store_cache # NoCreds THEN store_cache
    ELSE IF store_file.state = "ok" THEN store_file.creds
    ELSE NoCreds

\* a validation that the backend never passes
ValidationNeverPasses(r) == FALSE

\* validate_token: response.status_code == 200, an exception is False
ValidationPassed(r) == r.kind = "status" /\ r.code = 200

\* _register_device: response.status_code in (200, 201)
RegistrationAccepted(r) == r.kind = "status" /\ r.code \in {200, 201}

RegistrationResponses == Responses \cup {[kind |-> "status", code |-> 201]}

\* the is_registered property
IsRegistered == credentials # NoCreds /\ credentials.registered

\* get_auth_headers: the names of the headers it returns
AuthHeaders == IF credentials = NoCreds THEN {} ELSE {"X-Device-Id", "X-Device-Secret"}

\* the default headers of the HTTP clients of BackendClient, ZoneSyncClient
\* and UpdateManager (_get_client)
TransportHeaders == {"Content-Type", "X-Camera-Id", "X-Zone-Id"}
ZoneSyncHeaders == {"Content-Type", "X-Camera-Id"}
UpdateHeaders == {"Content-Type"}

\* ensure_registered from its entry to its first POST: load, generate when
\* nothing was loaded, then validate (stored and registered) or register
EnsureRegisteredEnter ==
    LET loaded == LoadedCredentials
        creds == IF loaded = NoCreds THEN GeneratedCredentials(lastId) ELSE loaded
        validate == loaded # NoCreds /\ loaded.registered
    IN
    /\ provPc = "idle"
    /\ store_cache' = loaded
    /\ credentials' = creds
    /\ lastId' = IF loaded = NoCreds THEN lastId + 1 ELSE lastId
    /\ issued' = issued \cup {<<creds.device_id, creds.device_secret>>}
    /\ provPc' = IF validate THEN "validating" ELSE "registering"
    /\ ens' = [IdleCall EXCEPT !.posts = IF validate THEN 0 ELSE 1]
    /\ UNCHANGED store_file

\* ensure_registered returns.  _initialize (lines 71-83) only logs the result
\* and goes on to Step 2 with the device_id it finds; any other caller keeps
\* the result.
EnsureRegisteredReturns(call, device) ==
    IF pc["main"] = "ensure_registered"
    THEN LET s == FromUpdateManager(Append(startupLog, "ensure_registered_done")) IN
         /\ ens' = IdleCall
         /\ pc' = [pc EXCEPT !["main"] = s.pc]
         /\ startupLog' = s.log
         /\ update_manager' = [constructed |-> TRUE, device_id |-> device]
    ELSE /\ ens' = call
         /\ UNCHANGED <<pc, startupLog, update_manager>>

\* the answer to the validation POST arrives
ValidateDone(r) ==
    /\ provPc = "validating"
    /\ Runnable("main")
    /\ LET call == [ens EXCEPT !.validation = r] IN
       IF ValidationPassed(r)
       THEN /\ provPc' = "idle"
            /\ EnsureRegisteredReturns(
                   [call EXCEPT !.result = "success", !.device_id = credentials.device_id],
                   credentials.device_id)
       ELSE /\ provPc' = "registering"
            /\ ens' = [call EXCEPT !.posts = @ + 1]
            /\ UNCHANGED <<pc, startupLog, update_manager>>
    /\ UNCHANGED <<store_file, store_cache, credentials, lastId, issued, calls>>
    /\ UNCHANGED <<configVars, extVars, zones, background_tasks, components_stopped, pause,
                   agentVars, sourceVars, transportVars, historyVars>>

\* the answer to the registration POST arrives; on 200 or 201 the
\* credentials are marked registered and DeviceStore.save writes them
RegisterDone(r) ==
    /\ provPc = "registering"
    /\ Runnable("main")
    /\ provPc' = "idle"
    /\ LET call == [ens EXCEPT !.registration = r] IN
       IF RegistrationAccepted(r)
       THEN LET creds == [credentials EXCEPT !.registered = TRUE] IN
            /\ credentials' = creds
            /\ store_file' = FileWith(creds)
            /\ store_cache' = creds
            /\ EnsureRegisteredReturns(
                   [call EXCEPT !.result = "success", !.device_id = creds.device_id],
                   creds.device_id)
       ELSE /\ UNCHANGED <<store_file, store_cache, credentials>>
            /\ EnsureRegisteredReturns([call EXCEPT !.result = "failure"],
                                       credentials.device_id)
    /\ UNCHANGED <<lastId, issued, calls>>
    /\ UNCHANGED <<configVars, extVars, zones, background_tasks, components_stopped, pause,
                   agentVars, sourceVars, transportVars, historyVars>>

\* ensure_registered called on an agent that has not been started
CallEnsureRegistered ==
    /\ pc["main"] = "init"
    /\ provPc = "idle"
    /\ calls < MaxCalls
    /\ calls' = calls + 1
    /\ IF enabled["provisioning"]
       THEN EnsureRegisteredEnter
       ELSE /\ ens' = [IdleCall EXCEPT !.result = "success"]
            /\ UNCHANGED <<store_file, store_cache, credentials, provPc, lastId, issued>>
    /\ UNCHANGED <<configVars, extVars, lifecycleVars, pause, pc, agentVars, sourceVars,
                   transportVars, historyVars>>

(* ============================ UpdateManager =========================== *)

RECURSIVE DeepMerge(_, _)

\* a merge in which every patch value replaces the existing one
ShallowMerge(base, patch) ==
    Dict([k \in DOMAIN base.kids \cup DOMAIN patch.kids |->
            IF k \in DOMAIN patch.kids THEN patch.kids[k] ELSE base.kids[k]])

\* _deep_merge lines 206-216: a copy of base in which every key of the patch
\* is merged recursively when both values are mappings, replaced otherwise
DeepMerge(base, patch) ==
    Dict([k \in DOMAIN base.kids \cup DOMAIN patch.kids |->
            IF k \in DOMAIN patch.kids
            THEN IF k \in DOMAIN base.kids /\ ~base.kids[k].leaf /\ ~patch.kids[k].leaf
                 THEN DeepMerge(base.kids[k], patch.kids[k])
                 ELSE patch.kids[k]
            ELSE base.kids[k]])

\* _deep_merge(base, patch), and the same patch merged into the result again
MergeCall ==
    /\ ~mg.done
    /\ pc["main"] = "init"
    /\ LET r == DeepMerge(mg.base, mg.patch) IN
       mg' = [mg EXCEPT !.result = r, !.again = DeepMerge(r, mg.patch), !.done = TRUE]
    /\ UNCHANGED <<configVars, sideVars, syncVars, updateVars, updateHistory, lifecycleVars, provVars,
                   pause, pc, agentVars, sourceVars, transportVars, historyVars>>

\* line 233: "if update.config_patch" (None and {} are both false)
HasPatch(u) == u.config_patch # NoPatch /\ u.config_patch # EmptyDict

\* the backup file written (over the one of the same name)
BackupWritten(files, tree) ==
    [n \in DOMAIN files \cup {BackupPath} |-> IF n = BackupPath THEN tree ELSE files[n]]

\* apply_config_update lines 178-204: read the file (or {}), merge, back the
\* current configuration up when the file exists, write the merged one; an
\* exception at any point makes it return False
ApplyConfigUpdate(file, files, patch, fault) ==
    LET current == IF file.exists THEN file.tree ELSE EmptyDict
        backed == IF file.exists THEN BackupWritten(files, current) ELSE files IN
    CASE fault = "read" -> [config |-> file, backups |-> files, success |-> FALSE]
      [] fault = "write" -> [config |-> file, backups |-> backed, success |-> FALSE]
      [] OTHER -> [config |-> ConfigWith(DeepMerge(current, patch)), backups |-> backed,
                   success |-> TRUE]

\* apply_pending_update lines 229-234, on the pending update u
Applied(u, fault) ==
    IF HasPatch(u)
    THEN ApplyConfigUpdate(config_file, backup_files, u.config_patch, fault)
    ELSE [config |-> config_file, backups |-> backup_files, success |-> FALSE]

\* a check that forgets the pending update when it finds none
PendingClearedByCheck(pending, resp) ==
    IF resp.kind = "update" THEN resp.update ELSE NoUpdate

\* check_for_updates line 138: only a 200 response carrying an update assigns
\* _pending_update
PendingAfterCheck(pending, resp) ==
    IF resp.kind = "update" THEN resp.update ELSE pending

\* an apply that always clears
PendingAlwaysCleared(pending, success) == NoUpdate

\* apply_pending_update lines 243-244
PendingAfterApply(pending, success) == IF success THEN NoUpdate ELSE pending

\* a loop that applies whatever the setting
AutoApplyAlways(found) == found # NoUpdate /\ HasPatch(found)

\* start_background_check lines 301-302, found being result.update_info
AutoApplyDue(found) == auto_apply /\ found # NoUpdate /\ HasPatch(found)

\* a manager that never reports
ReportNever(device) == FALSE

\* _report_update lines 257-258: nothing is sent without a device id
ReportDue(device) == device # 0

\* the JSON body of POST /api/update/report
ReportOf(u, success) ==
    [deviceId |-> update_manager.device_id, fromVersion |-> CURRENT_VERSION,
     toVersion |-> u.version, success |-> success]

\* the other caller, when it is awaiting its report, sees _pending_update
\* assigned under it
Interfere(locals, c, changed) ==
    [d \in Callers |->
        IF d # c /\ upc[d] = "report" /\ changed
        THEN [locals[d] EXCEPT !.interfered = TRUE] ELSE locals[d]]

\* apply_pending_update up to its first await, for caller c with u pending:
\* the configuration is patched, then either the report is posted or, with
\* no device id, the call runs to its end; since: a successful apply has
\* returned since the last discovery
ApplyBegin(c, u, fault, since) ==
    LET a == Applied(u, fault) IN
    /\ config_file' = a.config
    /\ backup_files' = a.backups
    /\ overwritten' = IF a.success /\ config_file.exists
                      THEN overwritten \cup {config_file.tree} ELSE overwritten
    /\ IF ReportDue(update_manager.device_id)
       THEN /\ upc' = [upc EXCEPT ![c] = "report"]
            /\ ul' = [Interfere(ul, c, u # pending_update) EXCEPT
                         ![c] = [update |-> u, success |-> a.success,
                                 report |-> ReportOf(u, a.success), interfered |-> FALSE]]
            /\ pending_update' = u
            /\ UNCHANGED lastApply
            /\ appliedSince' = since
       ELSE /\ upc' = [upc EXCEPT ![c] = "idle"]
            /\ ul' = Interfere(ul, c, PendingAfterApply(u, a.success) # pending_update)
            /\ pending_update' = PendingAfterApply(u, a.success)
            /\ lastApply' = [seq |-> lastApply.seq + 1, caller |-> c, update |-> u,
                             success |-> a.success, report |-> NoReport,
                             interfered |-> FALSE, before |-> u,
                             after |-> PendingAfterApply(u, a.success)]
            /\ appliedSince' = (since \/ a.success)

\* check_for_updates() is called and sends its GET: by the background loop
\* after its sleep, or through POST /update/check
CheckStart(c) ==
    /\ pc["main"] = "init"
    /\ enabled["update"]
    /\ upc[c] = "idle"
    /\ ops < MaxOps
    /\ ops' = ops + 1
    /\ upc' = [upc EXCEPT ![c] = "check"]
    /\ UNCHANGED <<pending_update, config_file, backup_files, auto_apply, ul, lastApply,
                   lastDiscovered, appliedSince, overwritten>>
    /\ UNCHANGED <<configVars, sideVars, mergeVars, syncVars, lifecycleVars, provVars, pause, pc,
                   agentVars, sourceVars, transportVars, historyVars>>

\* the GET is answered and check_for_updates returns; the background loop
\* goes straight on to apply_pending_update when lines 301-302 say so
CheckDone(c, resp, fault) ==
    /\ upc[c] = "check"
    /\ lastDiscovered' = IF resp.kind = "update" THEN resp.update ELSE lastDiscovered
    /\ IF c = "timer" /\ AutoApplyDue(resp.update)
       THEN ApplyBegin(c, PendingAfterCheck(pending_update, resp), fault, FALSE)
       ELSE /\ fault = "none"
            /\ pending_update' = PendingAfterCheck(pending_update, resp)
            /\ upc' = [upc EXCEPT ![c] = "idle"]
            /\ ul' = Interfere(ul, c, pending_update' # pending_update)
            /\ appliedSince' = (appliedSince /\ resp.kind # "update")
            /\ UNCHANGED <<config_file, backup_files, lastApply, overwritten>>
    /\ UNCHANGED <<auto_apply, ops>>
    /\ UNCHANGED <<configVars, sideVars, mergeVars, syncVars, lifecycleVars, provVars, pause, pc,
                   agentVars, sourceVars, transportVars, historyVars>>

\* POST /update/apply: apply_pending_update() when an update is pending
ApiApply(fault) ==
    /\ pc["main"] = "init"
    /\ upc["api"] = "idle"
    /\ ops < MaxOps
    /\ pending_update # NoUpdate
    /\ ops' = ops + 1
    /\ ApplyBegin("api", pending_update, fault, appliedSince)
    /\ UNCHANGED <<auto_apply, lastDiscovered>>
    /\ UNCHANGED <<configVars, sideVars, mergeVars, syncVars, lifecycleVars, provVars, pause, pc,
                   agentVars, sourceVars, transportVars, historyVars>>

\* the report POST is answered (or raises, which is swallowed) and
\* apply_pending_update returns
ReportDone(c) ==
    /\ upc[c] = "report"
    /\ pending_update' = PendingAfterApply(pending_update, ul[c].success)
    /\ lastApply' = [seq |-> lastApply.seq + 1, caller |-> c, update |-> ul[c].update,
                     success |-> ul[c].success, report |-> ul[c].report,
                     interfered |-> ul[c].interfered, before |-> pending_update,
                     after |-> pending_update']
    /\ appliedSince' = (appliedSince \/ ul[c].success)
    /\ upc' = [upc EXCEPT ![c] = "idle"]
    /\ ul' = [Interfere(ul, c, pending_update' # pending_update) EXCEPT ![c] = IdleApply]
    /\ UNCHANGED <<config_file, backup_files, auto_apply, lastDiscovered, overwritten, ops>>
    /\ UNCHANGED <<configVars, sideVars, mergeVars, syncVars, lifecycleVars, provVars, pause, pc,
                   agentVars, sourceVars, transportVars, historyVars>>

(* ============================ ZoneSyncClient ========================== *)

\* int(): a coordinate in half pixels to whole pixels, truncated toward zero
IntOf(h) == IF h >= 0 THEN h \div 2 ELSE -((-h) \div 2)

\* _determine_zone_type: None.lower() raises on a null name
ParseRaises(rec) == rec.name = NullName

\* _process_zones lines 120-137: the Zone built from one record
ParsedZone(rec) ==
    [zone_id |-> rec.zoneId, name |-> rec.name,
     polygon |-> [i \in DOMAIN rec.polygon |->
                     <<IntOf(rec.polygon[i][1]), IntOf(rec.polygon[i][2])>>],
     max_capacity |-> rec.maxCapacity,
     yellow_threshold |-> rec.yellowThreshold,
     red_threshold |-> rec.redThreshold]

\* ZoneManager.get_zone: the position of id in the registry, 0 for None
ZoneIndex(reg, id) ==
    IF \E i \in DOMAIN reg : reg[i].zone_id = id
    THEN CHOOSE i \in DOMAIN reg : reg[i].zone_id = id
    ELSE 0

\* a registry that only ever appends
AppendZone(reg, z) == Append(reg, z)

\* ZoneManager.add_zone: self.zones[zone.zone_id] = zone (a dict keeps the
\* position of a key it already has)
AddZone(reg, z) ==
    IF ZoneIndex(reg, z.zone_id) = 0
    THEN Append(reg, z)
    ELSE [reg EXCEPT ![ZoneIndex(reg, z.zone_id)] = z]

\* _process_zones: each record in turn; one that raises is logged and skipped
RECURSIVE ProcessZones(_, _)
ProcessZones(reg, data) ==
    IF data = <<>> THEN reg
    ELSE ProcessZones(IF ParseRaises(Head(data)) THEN reg
                      ELSE AddZone(reg, ParsedZone(Head(data))),
                      Tail(data))

\* a backoff that grows by one second per attempt
SyncBackoffLinear(attempt) == attempt + 1

\* lines 102, 105: asyncio.sleep(2 ** attempt)
SyncBackoff(attempt) == 2 ^ attempt

\* a client to which 404 is one more failed status
IsNotFoundNever(r) == FALSE

\* line 94
IsNotFound(r) == r.kind = "status" /\ r.code = 404

\* lines 100, 103: httpx.TimeoutException, httpx.ConnectError
IsTransient(r) == r.kind \in {"timeout", "connect"}

\* the for loop moves to the next attempt, or falls through to lines 107-108
NextAttempt(call) ==
    IF call.attempt + 1 < zone_sync_retry_attempts
    THEN [pc |-> "get", call |-> [call EXCEPT !.attempt = @ + 1]]
    ELSE [pc |-> "done",
          call |-> [call EXCEPT !.attempt = @ + 1, !.result = "empty", !.logged = "error"]]

\* sync_zones() is called (the local ZoneSyncConfig is enabled) and sends its
\* first GET
SyncCall ==
    /\ pc["main"] = "init"
    /\ syncPc = "idle"
    /\ syncs < MaxSyncs
    /\ syncPc' = "get"
    /\ sy' = [IdleSync EXCEPT !.before = zones]
    /\ UNCHANGED <<syncs, configVars, sideVars, mergeVars, updateVars, updateHistory, lifecycleVars, provVars, pause, pc,
                   agentVars, sourceVars, transportVars, historyVars>>

\* the GET is answered by r, with body data when the status is 200
SyncResponse(r, data) ==
    /\ syncPc = "get"
    /\ (r.kind = "status" /\ r.code = 200) \/ data = <<>>
    /\ LET got == [sy EXCEPT !.gets = @ + 1, !.last = r] IN
       IF r.kind = "status" /\ r.code = 200
       THEN /\ zones' = ProcessZones(zones, data)
            /\ sy' = [got EXCEPT !.result = "zones", !.logged = "info", !.data = data]
            /\ syncPc' = "done"
       ELSE /\ UNCHANGED zones
            /\ IF IsNotFound(r)
               THEN /\ sy' = [got EXCEPT !.result = "empty", !.logged = "info"]
                    /\ syncPc' = "done"
               ELSE IF r.kind = "status"
               THEN /\ sy' = NextAttempt(got).call
                    /\ syncPc' = NextAttempt(got).pc
               ELSE IF IsTransient(r)
               THEN /\ sy' = [got EXCEPT !.waits = Append(@, SyncBackoff(got.attempt)),
                                         !.logged = "warning"]
                    /\ syncPc' = "sleep"
               ELSE /\ sy' = [got EXCEPT !.result = "empty", !.logged = "error"]
                    /\ syncPc' = "done"
    /\ UNCHANGED <<syncs, configVars, sideVars, mergeVars, updateVars, updateHistory, update_manager, background_tasks,
                   components_stopped, startupLog, provVars, pause, pc, agentVars,
                   sourceVars, transportVars, historyVars>>

\* the backoff sleep of an attempt ends
SyncSleepDone ==
    /\ syncPc = "sleep"
    /\ sy' = NextAttempt(sy).call
    /\ syncPc' = NextAttempt(sy).pc
    /\ UNCHANGED <<syncs, configVars, sideVars, mergeVars, updateVars, updateHistory, lifecycleVars, provVars, pause, pc,
                   agentVars, sourceVars, transportVars, historyVars>>

\* the caller takes the returned list
SyncReturn ==
    /\ syncPc = "done"
    /\ syncPc' = "idle"
    /\ sy' = IdleSync
    /\ syncs' = syncs + 1
    /\ UNCHANGED <<configVars, sideVars, mergeVars, updateVars, updateHistory, lifecycleVars, provVars,
                   pause, pc, agentVars, sourceVars, transportVars, historyVars>>

(* ======================= EdgeAgent (orchestrator) ===================== *)

\* a backoff without the cap
ConnectionBackoffUncapped(n) == base_backoff * (2 ^ n)

\* line 182: min(base_backoff * (2 ** consecutive_errors), max_backoff)
ConnectionBackoff(n) == Min(base_backoff * (2 ^ n), max_backoff)

\* line 205: min(base_backoff * consecutive_errors, max_backoff)
UnexpectedBackoff(n) == Min(base_backoff * n, max_backoff)

\* line 187: if consecutive_errors >= 3
ReconnectDue(n) == n >= ReconnectThreshold

\* a reconnect that resets the counter whatever its outcome
CounterResetAnyway(o, n) == 0

\* lines 190-194: the counter after the forced reconnect
CounterAfterReconnect(o, n) == IF o = "opened" THEN 0 ELSE n

\* a ValueError counted like the other errors
CounterIncremented(n) == n + 1

\* lines 196-199: a ValueError leaves the counter alone
CounterAfterValueError(n) == n

\* lines 213-223: the zones one frame is dispatched to
ZonesToProcess ==
    IF zones = <<>> THEN <<DefaultZone>> ELSE [i \in DOMAIN zones |-> zones[i].zone_id]

\* the tasks start() creates after the connect (lines 139-158)
LaunchedTasks ==
    [b \in BackgroundTasks |-> IF enabled[TaskFeature(b)] THEN "running" ELSE "none"]

\* lines 207-209: every task that was created is cancelled
CancelledTasks(tasks) ==
    [b \in BackgroundTasks |-> IF tasks[b] = "running" THEN "cancelled" ELSE tasks[b]]

\* start() up to the first await of _initialize: Step 1 when provisioning is
\* enabled, else Step 2 onwards
Start ==
    /\ pc["main"] = "init"
    /\ Runnable("main")
    /\ running' = TRUE
    /\ IF enabled["provisioning"]
       THEN /\ EnsureRegisteredEnter
            /\ pc' = [pc EXCEPT !["main"] = "ensure_registered"]
            /\ startupLog' = <<"ensure_registered_started">>
            /\ UNCHANGED <<update_manager, calls>>
       ELSE LET s == FromUpdateManager(<<>>) IN
            /\ pc' = [pc EXCEPT !["main"] = s.pc]
            /\ startupLog' = s.log
            /\ update_manager' = [constructed |-> TRUE, device_id |-> credentials.device_id]
            /\ UNCHANGED provVars
    /\ UNCHANGED <<configVars, extVars, zones, background_tasks, components_stopped, pause,
                   consecutive_errors, backoff_time, todo, sourceVars,
                   transportVars, historyVars>>

\* _initialize Step 3: check_for_updates() returns
UpdateCheckDone ==
    /\ pc["main"] = "update_check"
    /\ Runnable("main")
    /\ LET s == FromZoneSyncClient(Append(startupLog, "update_check_done")) IN
       /\ pc' = [pc EXCEPT !["main"] = s.pc]
       /\ startupLog' = s.log
    /\ UNCHANGED <<configVars, extVars, zones, update_manager, background_tasks,
                   components_stopped, provVars, pause, agentVars, sourceVars,
                   transportVars, historyVars>>

\* _initialize Step 5: sync_zones() returns, z being what it left in the
\* registry; _initialize returns True and start() calls connect()
ZoneSyncDone(z) ==
    /\ pc["main"] = "zone_sync"
    /\ Runnable("main")
    /\ zones' = z
    /\ LET s == ToConnect(Append(startupLog, "zone_sync_done")) IN
       /\ pc' = [pc EXCEPT !["main"] = s.pc]
       /\ startupLog' = s.log
    /\ UNCHANGED <<configVars, extVars, update_manager, background_tasks, components_stopped,
                   provVars, pause, agentVars, sourceVars, transportVars, historyVars>>

\* lines 133-163: the connect of start() returns
ConnectDone(o) ==
    /\ pc["main"] = "connecting"
    /\ Runnable("main")
    /\ cap' = CapAfterConnect(o)
    /\ connected' = ConnectedAfterConnect(o)
    /\ pc' = [pc EXCEPT !["main"] = IF o = "opened" THEN "loop" ELSE "returned"]
    /\ startupLog' = Append(startupLog, "connect_returned")
    /\ background_tasks' = IF o = "opened" THEN LaunchedTasks ELSE background_tasks
    /\ UNCHANGED <<configVars, extVars, zones, update_manager, components_stopped, provVars,
                   pause, agentVars, transportVars, historyVars>>

\* lines 165-171, 207-209 and get_frame lines 87-101: the loop test, then the
\* start of get_frame, or the end of start()
LoopTop(throttled) ==
    /\ pc["main"] = "loop"
    /\ pc' = [pc EXCEPT !["main"] =
                IF ~running THEN "returned"
                ELSE IF ~connected \/ cap = "none" \/ throttled THEN "sleep_none"
                ELSE "reading"]
    /\ background_tasks' = IF ~running THEN CancelledTasks(background_tasks)
                           ELSE background_tasks
    /\ UNCHANGED <<configVars, extVars, zones, update_manager, components_stopped, startupLog,
                   provVars, pause, agentVars, sourceVars, transportVars, historyVars>>

\* asyncio.sleep(0.1) after a None frame
SleepNoneDone ==
    /\ pc["main"] = "sleep_none"
    /\ Runnable("main")
    /\ pc' = [pc EXCEPT !["main"] = "loop"]
    /\ UNCHANGED <<configVars, extVars, lifecycleVars, provVars, pause, agentVars, sourceVars, transportVars, historyVars>>

\* get_frame lines 98-122: the executor read returns
ReadDone(o) ==
    /\ pc["main"] = "reading"
    /\ Runnable("main")
    /\ CASE o = "frame" ->
              /\ todo' = ZonesToProcess
              /\ pc' = [pc EXCEPT !["main"] = "process"]
              /\ UNCHANGED sourceVars
         [] o = "fail" ->
              \* _reconnect lines 126-130
              /\ connected' = FALSE
              /\ cap' = IF cap = "none" THEN "none" ELSE "closed"
              /\ pc' = [pc EXCEPT !["main"] = "rc_sleep"]
              /\ UNCHANGED todo
         [] OTHER ->
              /\ pc' = [pc EXCEPT !["main"] = "sleep_none"]
              /\ UNCHANGED <<todo, sourceVars>>
    /\ UNCHANGED <<configVars, extVars, lifecycleVars, provVars, pause, running, consecutive_errors, backoff_time,
                   transportVars, historyVars>>

\* _reconnect line 130-131: the sleep ends, connect() starts
ReconnectSleepDone ==
    /\ pc["main"] = "rc_sleep"
    /\ Runnable("main")
    /\ pc' = [pc EXCEPT !["main"] = "rc_connect"]
    /\ UNCHANGED <<configVars, extVars, lifecycleVars, provVars, pause, agentVars, sourceVars, transportVars, historyVars>>

\* _reconnect line 131: connect() returns, get_frame returns None
ReconnectInternalDone(o) ==
    /\ pc["main"] = "rc_connect"
    /\ Runnable("main")
    /\ cap' = CapAfterConnect(o)
    /\ connected' = ConnectedAfterConnect(o)
    /\ pc' = [pc EXCEPT !["main"] = "sleep_none"]
    /\ UNCHANGED <<configVars, extVars, lifecycleVars, provVars, pause, agentVars, transportVars, historyVars>>

\* one zone of the frame is done: the next zone, or the iteration succeeded
\* (line 177)
ZoneDone ==
    IF Len(todo) > 1
    THEN /\ pc' = [pc EXCEPT !["main"] = "process"]
         /\ todo' = Tail(todo)
         /\ UNCHANGED <<consecutive_errors, connStreak>>
    ELSE /\ pc' = [pc EXCEPT !["main"] = "loop"]
         /\ todo' = <<>>
         /\ consecutive_errors' = 0
         /\ connStreak' = 0

\* send_telemetry lines 63-70, the lock taken
SendBody(sample) ==
    LET buf == Append(buffer, sample) IN
    IF BufferFull(buf)
    THEN /\ lock' = "main"
         /\ FlushBuffer("main", buf)
         /\ UNCHANGED <<todo, consecutive_errors, connStreak>>
    ELSE /\ buffer' = buf
         /\ lock' = "none"
         /\ ZoneDone
         /\ UNCHANGED <<client, fl, dropped>>

\* _extract_and_send for the next zone of the frame: no features
ExtractNone ==
    /\ pc["main"] = "process"
    /\ ZoneDone
    /\ UNCHANGED <<configVars, extVars, lifecycleVars, provVars, pause, running, backoff_time, sourceVars, transportVars,
                   nextId, dropped, closeLog>>

\* _extract_and_send for the next zone of the frame: features, handed to
\* send_telemetry
ExtractAndSend ==
    /\ pc["main"] = "process"
    /\ nextId <= MaxSamples
    /\ nextId' = nextId + 1
    /\ IF LockFree("main")
       THEN SendBody(nextId)
       ELSE /\ pc' = [pc EXCEPT !["main"] = "send_wait"]
            /\ UNCHANGED <<todo, consecutive_errors, connStreak, transportVars, dropped>>
    /\ UNCHANGED <<configVars, extVars, lifecycleVars, provVars, pause, running, backoff_time, sourceVars, closeLog>>

\* send_telemetry line 63: the lock is granted
SendAcquire ==
    /\ pc["main"] = "send_wait"
    /\ Runnable("main")
    /\ LockFree("main")
    /\ SendBody(nextId - 1)
    /\ UNCHANGED <<configVars, extVars, lifecycleVars, provVars, pause, running, backoff_time, sourceVars, nextId, closeLog>>

\* send_telemetry line 68: the flush returned, the lock is released
SendReturn ==
    /\ pc["main"] = "flush_ret"
    /\ lock' = "none"
    /\ fl' = [fl EXCEPT !["main"] = IdleFlush]
    /\ ZoneDone
    /\ UNCHANGED <<configVars, extVars, lifecycleVars, provVars, pause, running, backoff_time, sourceVars, buffer, client,
                   nextId, dropped, closeLog>>

\* lines 179-184: ConnectionError, TimeoutError or OSError in the iteration
ConnectionErrorRaised ==
    /\ pc["main"] = "process"
    /\ consecutive_errors < MaxErrors
    /\ consecutive_errors' = consecutive_errors + 1
    /\ backoff_time' = ConnectionBackoff(consecutive_errors + 1)
    /\ connStreak' = connStreak + 1
    /\ todo' = <<>>
    /\ pc' = [pc EXCEPT !["main"] = "backoff_conn"]
    /\ UNCHANGED <<configVars, extVars, lifecycleVars, provVars, pause, running, sourceVars, transportVars, nextId, dropped, closeLog>>

\* lines 184-190: the backoff sleep ends; disconnect() and connect() when due
ConnectionBackoffDone ==
    /\ pc["main"] = "backoff_conn"
    /\ Runnable("main")
    /\ IF ReconnectDue(consecutive_errors)
       THEN /\ connected' = FALSE
            /\ cap' = "none"
            /\ pc' = [pc EXCEPT !["main"] = "reconnecting"]
       ELSE /\ pc' = [pc EXCEPT !["main"] = "loop"]
            /\ UNCHANGED sourceVars
    /\ UNCHANGED <<configVars, extVars, lifecycleVars, provVars, pause, agentVars, transportVars, historyVars>>

\* lines 190-194: the forced connect() returns
ReconnectDone(o) ==
    /\ pc["main"] = "reconnecting"
    /\ Runnable("main")
    /\ cap' = CapAfterConnect(o)
    /\ connected' = ConnectedAfterConnect(o)
    /\ consecutive_errors' = CounterAfterReconnect(o, consecutive_errors)
    /\ connStreak' = IF o = "opened" THEN 0 ELSE connStreak
    /\ pc' = [pc EXCEPT !["main"] = "loop"]
    /\ UNCHANGED <<configVars, extVars, lifecycleVars, provVars, pause, running, backoff_time, todo, transportVars,
                   nextId, dropped, closeLog>>

\* lines 196-199: ValueError in the iteration
ValueErrorRaised ==
    /\ pc["main"] = "process"
    /\ consecutive_errors' = CounterAfterValueError(consecutive_errors)
    /\ todo' = <<>>
    /\ pc' = [pc EXCEPT !["main"] = "pause_val"]
    /\ pause' = ValidationPause
    /\ UNCHANGED <<configVars, extVars, lifecycleVars, provVars, running, backoff_time, sourceVars, transportVars, historyVars>>

\* lines 201-205: any other Exception in the iteration
UnexpectedErrorRaised ==
    /\ pc["main"] = "process"
    /\ consecutive_errors < MaxErrors
    /\ consecutive_errors' = consecutive_errors + 1
    /\ backoff_time' = UnexpectedBackoff(consecutive_errors + 1)
    /\ todo' = <<>>
    /\ pc' = [pc EXCEPT !["main"] = "backoff_unexp"]
    /\ UNCHANGED <<configVars, extVars, lifecycleVars, provVars, pause, running, sourceVars, transportVars, historyVars>>

\* lines 199, 205: the pause after a ValueError or an unexpected error ends
PauseDone ==
    /\ pc["main"] \in {"pause_val", "backoff_unexp"}
    /\ Runnable("main")
    /\ pc' = [pc EXCEPT !["main"] = "loop"]
    /\ pause' = 0
    /\ UNCHANGED <<configVars, extVars, lifecycleVars, provVars, agentVars, sourceVars,
                   transportVars, historyVars>>

(* ====================== EdgeAgent.stop and close ====================== *)

\* close() lines 124-125, the lock taken
CloseBody ==
    /\ lock' = "stop"
    /\ closeLog' = [NoClose EXCEPT !.taken = TRUE, !.snap = buffer]
    /\ FlushBuffer("stop", buffer)

\* stop() lines 274-279: up to the lock of close()
Stop ==
    /\ pc["stop"] = "idle"
    /\ pc["main"] # "init"
    /\ Runnable("stop")
    /\ running' = FALSE
    /\ connected' = FALSE
    /\ cap' = "none"
    /\ IF LockFree("stop")
       THEN CloseBody
       ELSE /\ pc' = [pc EXCEPT !["stop"] = "close_wait"]
            /\ UNCHANGED <<transportVars, dropped, closeLog>>
    /\ UNCHANGED <<configVars, extVars, lifecycleVars, provVars, pause, consecutive_errors, backoff_time, todo, nextId, connStreak>>

\* close() line 124: the lock is granted
CloseAcquire ==
    /\ pc["stop"] = "close_wait"
    /\ Runnable("stop")
    /\ LockFree("stop")
    /\ CloseBody
    /\ UNCHANGED <<configVars, extVars, lifecycleVars, provVars, pause, agentVars, sourceVars, nextId, connStreak>>

\* close() lines 125-130: the flush returned; lock released, client closed;
\* then stop() lines 281-290: the zone sync, identity and update components
\* are stopped and their HTTP clients closed
CloseReturn ==
    /\ pc["stop"] = "flush_ret"
    /\ lock' = "none"
    /\ client' = FALSE
    /\ closeLog' = [closeLog EXCEPT !.flushed = TRUE, !.released = TRUE,
                                    !.posts = fl["stop"].posts]
    /\ fl' = [fl EXCEPT !["stop"] = IdleFlush]
    /\ pc' = [pc EXCEPT !["stop"] = "stopped"]
    /\ components_stopped' = TRUE
    /\ UNCHANGED <<configVars, extVars, zones, update_manager, background_tasks, startupLog,
                   provVars, pause, agentVars, sourceVars, buffer, nextId, dropped, connStreak>>

Next ==
    \/ Start
    \/ \E r \in Responses : ValidateDone(r)
    \/ \E r \in RegistrationResponses : RegisterDone(r)
    \/ UpdateCheckDone
    \/ \E z \in ZoneConfigs : ZoneSyncDone(z)
    \/ \E o \in ConnectOutcomes : ConnectDone(o)
    \/ \E th \in BOOLEAN : LoopTop(th)
    \/ SleepNoneDone
    \/ \E o \in {"frame", "fail", "exception"} : ReadDone(o)
    \/ ReconnectSleepDone
    \/ \E o \in ConnectOutcomes : ReconnectInternalDone(o)
    \/ ExtractNone
    \/ ExtractAndSend
    \/ SendAcquire
    \/ SendReturn
    \/ ConnectionErrorRaised
    \/ ConnectionBackoffDone
    \/ \E o \in ConnectOutcomes : ReconnectDone(o)
    \/ ValueErrorRaised
    \/ UnexpectedErrorRaised
    \/ PauseDone
    \/ Stop
    \/ CloseAcquire
    \/ CloseReturn
    \/ \E t \in Tasks, r \in Responses : Runnable(t) /\ PostResponse(t, r)
    \/ \E t \in Tasks : Runnable(t) /\ FlushWake(t)

Spec == Init /\ [][Next]_vars

\* The agent when no iteration of the main loop raises: the transport with
\* its two callers, the main loop's sends and the close() of stop().
NextTransport ==
    \/ Start
    \/ \E r \in Responses : ValidateDone(r)
    \/ \E r \in RegistrationResponses : RegisterDone(r)
    \/ UpdateCheckDone
    \/ \E z \in ZoneConfigs : ZoneSyncDone(z)
    \/ \E o \in ConnectOutcomes : ConnectDone(o)
    \/ \E th \in BOOLEAN : LoopTop(th)
    \/ SleepNoneDone
    \/ \E o \in {"frame", "fail", "exception"} : ReadDone(o)
    \/ ReconnectSleepDone
    \/ \E o \in ConnectOutcomes : ReconnectInternalDone(o)
    \/ ExtractNone
    \/ ExtractAndSend
    \/ SendAcquire
    \/ SendReturn
    \/ Stop
    \/ CloseAcquire
    \/ CloseReturn
    \/ \E t \in Tasks, r \in Responses : Runnable(t) /\ PostResponse(t, r)
    \/ \E t \in Tasks : Runnable(t) /\ FlushWake(t)

SpecTransport == Init /\ [][NextTransport]_vars

\* The main loop and its three error handlers, with no telemetry sent and no
\* shutdown.
NextErrors ==
    \/ Start
    \/ \E r \in Responses : ValidateDone(r)
    \/ \E r \in RegistrationResponses : RegisterDone(r)
    \/ UpdateCheckDone
    \/ \E z \in ZoneConfigs : ZoneSyncDone(z)
    \/ \E o \in ConnectOutcomes : ConnectDone(o)
    \/ \E th \in BOOLEAN : LoopTop(th)
    \/ SleepNoneDone
    \/ \E o \in {"frame", "fail", "exception"} : ReadDone(o)
    \/ ReconnectSleepDone
    \/ \E o \in ConnectOutcomes : ReconnectInternalDone(o)
    \/ ExtractNone
    \/ ConnectionErrorRaised
    \/ ConnectionBackoffDone
    \/ \E o \in ConnectOutcomes : ReconnectDone(o)
    \/ ValueErrorRaised
    \/ UnexpectedErrorRaised
    \/ PauseDone

SpecErrors == Init /\ [][NextErrors]_vars

\* The same steps under fair scheduling of the main loop: a step of the loop
\* that stays possible is eventually taken (the event loop resumes a task
\* whose sleep, read or connect has ended).
SpecLive == Init /\ [][NextErrors]_vars /\ WF_vars(NextErrors)

\* The agent from process start to an idle main loop (no frame is due), and
\* its shutdown.
NextLifecycle ==
    \/ Start
    \/ \E r \in Responses : ValidateDone(r)
    \/ \E r \in RegistrationResponses : RegisterDone(r)
    \/ UpdateCheckDone
    \/ \E z \in ZoneConfigs : ZoneSyncDone(z)
    \/ \E o \in ConnectOutcomes : ConnectDone(o)
    \/ LoopTop(TRUE)
    \/ SleepNoneDone
    \/ Stop
    \/ CloseReturn

SpecLifecycle == InitLifecycle /\ [][NextLifecycle]_vars

\* The identity manager alone: ensure_registered called again and again.
NextProvisioning ==
    \/ CallEnsureRegistered
    \/ \E r \in Responses : ValidateDone(r)
    \/ \E r \in RegistrationResponses : RegisterDone(r)

SpecProvisioning == InitProvisioning /\ [][NextProvisioning]_vars

\* _deep_merge alone, on every pair of trees
InitMerge ==
    /\ InitBase
    /\ InitIdleSide
    /\ InitIdleSync
    /\ InitIdleUpdate
    /\ InitNoIdentity
    /\ batch_size = 1
    /\ retry_attempts = 0
    /\ enabled = AllEnabled
    /\ store_file = NoFile
    /\ mg \in {[IdleMerge EXCEPT !.base = b, !.patch = p] :
                  b \in NestedDicts, p \in NestedDicts}

NextMerge == MergeCall

SpecMerge == InitMerge /\ [][NextMerge]_vars

\* The update manager alone, constructed with the device id of the loaded
\* credentials (none, registered or not), driven by its background loop and
\* by the control surface.
InitUpdate ==
    /\ InitBase
    /\ InitIdleSide
    /\ InitIdleMerge
    /\ InitIdleSync
    /\ batch_size = 1
    /\ retry_attempts = 0
    /\ enabled = AllEnabled
    /\ store_file = NoFile
    /\ credentials \in {NoCreds, StoredCreds(TRUE), StoredCreds(FALSE)}
    /\ update_manager = [constructed |-> TRUE, device_id |-> credentials.device_id]
    /\ pending_update = NoUpdate
    /\ config_file \in {NoConfig, ConfigWith(PatchA)}
    /\ backup_files = NoBackups
    /\ auto_apply \in BOOLEAN
    /\ upc = [c \in Callers |-> "idle"]
    /\ ul = [c \in Callers |-> IdleApply]
    /\ lastApply = NoApply
    /\ lastDiscovered = NoUpdate
    /\ appliedSince = FALSE
    /\ overwritten = {}
    /\ ops = 0

NextUpdate ==
    \/ \E c \in Callers : CheckStart(c)
    \/ \E c \in Callers, resp \in CheckResponses, fault \in Faults : CheckDone(c, resp, fault)
    \/ \E fault \in Faults : ApiApply(fault)
    \/ \E c \in Callers : ReportDone(c)

SpecUpdate == InitUpdate /\ [][NextUpdate]_vars

\* The zone sync client alone: one cycle after another.
InitZoneSync ==
    /\ InitBase
    /\ InitIdle
    /\ batch_size = 1
    /\ retry_attempts = 0
    /\ enabled = AllEnabled
    /\ store_file = NoFile

NextZoneSync ==
    \/ SyncCall
    \/ \E r \in Responses, data \in ZoneBodies : SyncResponse(r, data)
    \/ SyncSleepDone
    \/ SyncReturn

SpecZoneSync == InitZoneSync /\ [][NextZoneSync]_vars

\* ---- EdgeAgent._process_frame: one frame, zone by zone ----

restVars == <<configVars, mergeVars, syncVars, updateVars, updateHistory, lifecycleVars,
              provVars, pause, pc, agentVars, sourceVars, transportVars, historyVars>>

\* FeatureBuilder.extract lines 156-169: what the extractor can return for a
\* frame; the zone id is always settings.zone_id
ExtractorOutputs ==
    {Payload(DefaultZone, "t", d, c) : d \in 0..MaxScalar, c \in 0..MaxScalar}

\* _extract_and_send lines 238-251: the payload rebuilt for a zone other than
\* settings.zone_id; person_count is not passed and takes the dataclass
\* default 0 (feature_builder.py line 38)
Stamp(features, zone_id) ==
    IF zone_id # DefaultZone
    THEN [tenant_id |-> features.tenant_id,
          site_id |-> features.site_id,
          camera_id |-> features.camera_id,
          zone_id |-> zone_id,
          timestamp |-> features.timestamp,
          density |-> features.density,
          avg_speed |-> features.avg_speed,
          speed_variance |-> features.speed_variance,
          flow_entropy |-> features.flow_entropy,
          alignment |-> features.alignment,
          bottleneck_index |-> features.bottleneck_index,
          person_count |-> 0]
    ELSE features

\* _process_frame lines 213-219: the zone list is copied from the registry
ProcessFrame ==
    /\ pf.pc \in {"idle", "done"}
    /\ pf' = [pc |-> "zone", todo |-> ZonesToProcess, dispatched |-> ZonesToProcess,
              extracts |-> 0, handed |-> <<>>]
    /\ UNCHANGED <<restVars, vp, geo, loops>>

\* _extract_and_send lines 232-265 for the next zone of the list: extract,
\* stamp, send_telemetry
ExtractAndSendZone(out) ==
    /\ pf.pc = "zone"
    /\ LET zone_id == Head(pf.todo)
           sent == IF out = NoFeatures THEN pf.handed
                   ELSE Append(pf.handed, [zone |-> zone_id, out |-> out,
                                           sample |-> Stamp(out, zone_id)])
       IN pf' = [pf EXCEPT !.todo = Tail(@),
                           !.extracts = @ + 1,
                           !.handed = sent,
                           !.pc = IF Tail(pf.todo) = <<>> THEN "done" ELSE "zone"]
    /\ UNCHANGED <<restVars, vp, geo, loops>>

\* ZoneManager.add_zone, called by the zone sync between two awaits of the
\* main loop
RegistryAddZone(z) ==
    /\ zones' = AddZone(zones, z)
    /\ UNCHANGED <<configVars, extVars, update_manager, background_tasks,
                   components_stopped, startupLog, provVars, pause, pc, agentVars,
                   sourceVars, transportVars, historyVars>>

InitStamp ==
    /\ InitBase
    /\ InitIdle
    /\ batch_size = 1
    /\ retry_attempts = 0
    /\ enabled = AllEnabled
    /\ store_file = NoFile

NextStamp ==
    \/ \E id \in ZoneIds : RegistryAddZone(PlainZone(id))
    \/ ProcessFrame
    \/ \E out \in ExtractorOutputs \cup {NoFeatures} : ExtractAndSendZone(out)

SpecStamp == InitStamp /\ [][NextStamp]_vars

\* ---- VideoFileClient and process_video: one file ----

\* is_complete (video_file_client.py lines 131-134)
is_complete(v) == v.current_frame >= v.total_frames /\ v.total_frames > 0

\* process_video lines 66-70: what the loop does with a None frame
AfterNone(v) == IF is_complete(v) THEN "complete" ELSE "sleep"

\* connect (lines 39-70) and process_video lines 58-60: the file opens, or the
\* error is reported and process_video returns
VideoConnect(opened) ==
    /\ vp.pc = "idle"
    /\ vp' = IF opened
             THEN [vp EXCEPT !.pc = "loop", !.connected = TRUE,
                             !.total_frames = vp.frame_count, !.current_frame = 0]
             ELSE [vp EXCEPT !.pc = "failed"]
    /\ UNCHANGED <<restVars, pf, geo, loops>>

\* get_frame lines 84-95: the tests before the read; throttled is the FPS
\* control of lines 93-95
VideoGetFrame(throttled) ==
    /\ vp.pc = "loop"
    /\ vp' = [vp EXCEPT !.pc =
                IF ~vp.connected \/ vp.current_frame >= vp.total_frames \/ throttled
                THEN AfterNone(vp)
                ELSE "reading"]
    /\ UNCHANGED <<restVars, pf, geo, loops>>

\* get_frame lines 97-122: the executor read returns a frame while the file
\* has one, and (False, None) after its last frame
VideoReadDone ==
    /\ vp.pc = "reading"
    /\ vp' = IF vp.current_frame < vp.file_frames
             THEN [vp EXCEPT !.pc = "frame", !.current_frame = @ + 1]
             ELSE [vp EXCEPT !.pc = AfterNone(vp)]
    /\ UNCHANGED <<restVars, pf, geo, loops>>

\* process_video lines 72-92: features, telemetry POST and progress report
VideoFrameDone ==
    /\ vp.pc = "frame"
    /\ vp' = [vp EXCEPT !.pc = "loop"]
    /\ UNCHANGED <<restVars, pf, geo, loops>>

\* process_video line 69: asyncio.sleep(0.01) ends
VideoSleepDone ==
    /\ vp.pc = "sleep"
    /\ vp' = [vp EXCEPT !.pc = "loop"]
    /\ UNCHANGED <<restVars, pf, geo, loops>>

\* process_video lines 94-99: report_complete and disconnect
VideoFinish ==
    /\ vp.pc = "complete"
    /\ vp' = [vp EXCEPT !.pc = "done", !.completed = TRUE, !.connected = FALSE]
    /\ UNCHANGED <<restVars, pf, geo, loops>>

\* a file with file_frames readable frames whose header reports frame_count
InitVideo ==
    /\ InitBase
    /\ InitIdleMerge /\ InitIdleSync /\ InitIdleUpdate /\ InitNoIdentity
    /\ InitIdleFrame /\ InitIdleGeo /\ InitIdleLoops
    /\ batch_size = 1
    /\ retry_attempts = 0
    /\ enabled = AllEnabled
    /\ store_file = NoFile
    /\ vp \in {[IdleVideo EXCEPT !.file_frames = f, !.frame_count = n] :
                  f \in 0..MaxFrames, n \in 0..MaxFrames}

NextVideo ==
    \/ \E opened \in BOOLEAN : VideoConnect(opened)
    \/ \E throttled \in BOOLEAN : VideoGetFrame(throttled)
    \/ VideoReadDone
    \/ VideoFrameDone
    \/ VideoSleepDone
    \/ VideoFinish

\* Fair scheduling of process_video: every step that stays possible is taken,
\* and the clock passes the frame interval, so the FPS control lets a call of
\* get_frame through again and again.
SpecVideo ==
    /\ InitVideo
    /\ [][NextVideo]_vars
    /\ WF_vars(NextVideo)
    /\ SF_vars(VideoGetFrame(FALSE))

\* ---- Zone.contains_point and Zone.get_mask ----

\* vertices are pixels of the frame (List[Tuple[int, int]]); test points lie
\* in the frame or one pixel outside it
Coords == 0..MaxCoord
Pixels == {<<px, py>> : px \in Coords, py \in Coords}
TestCoords == -1..(MaxCoord + 1)
Square == <<(<<0, 0>>), (<<2, 0>>), (<<2, 2>>), (<<0, 2>>)>>
Arrow == <<(<<0, 0>>), (<<1, 1>>), (<<2, 0>>), (<<1, 2>>)>>
BowTie == <<(<<0, 0>>), (<<2, 2>>), (<<2, 0>>), (<<0, 2>>)>>
Polygons ==
    {<<>>} \cup {<<a>> : a \in Pixels} \cup {<<a, b>> : a \in Pixels, b \in Pixels}
    \cup {<<a, b, c>> : a \in Pixels, b \in Pixels, c \in Pixels}
    \cup {Square, Arrow, BowTie}

\* the vertex list started k places later
Rotate(poly, k) ==
    [i \in 1..Len(poly) |-> poly[((i - 1 + k) % Len(poly)) + 1]]

\* line 41: (yi > y) != (yj > y) and x < (xj - xi) * (y - yi) / (yj - yi) + xi;
\* the division is exact on these integers, so the comparison is the one of
\* the products, with the sign of yj - yi
Crosses(xi, yi, xj, yj, x, y) ==
    /\ (yi > y) # (yj > y)
    /\ IF yj - yi > 0
       THEN (x - xi) * (yj - yi) < (xj - xi) * (y - yi)
       ELSE (x - xi) * (yj - yi) > (xj - xi) * (y - yi)

RECURSIVE RayCastKeepJ(_, _, _, _, _, _)
RECURSIVE RayCast(_, _, _, _, _, _)
\* the loop without "j = i": every edge starts at the last vertex
RayCastKeepJ(poly, x, y, i, j, inside) ==
    IF i > Len(poly) THEN inside
    ELSE RayCastKeepJ(poly, x, y, i + 1, j,
                      IF Crosses(poly[i][1], poly[i][2], poly[j][1], poly[j][2], x, y)
                      THEN ~inside ELSE inside)
\* lines 35-46: the loop over the edges (j, i)
RayCast(poly, x, y, i, j, inside) ==
    IF i > Len(poly) THEN inside
    ELSE RayCast(poly, x, y, i + 1, i,
                 IF Crosses(poly[i][1], poly[i][2], poly[j][1], poly[j][2], x, y)
                 THEN ~inside ELSE inside)

\* Zone.contains_point (lines 29-46)
contains_point(poly, x, y) ==
    IF Len(poly) < 3 THEN FALSE ELSE RayCast(poly, x, y, 1, Len(poly), FALSE)

\* a pixel on the segment from a to b
OnSegment(q, a, b) ==
    /\ (b[1] - a[1]) * (q[2] - a[2]) = (b[2] - a[2]) * (q[1] - a[1])
    /\ (q[1] - a[1]) * (q[1] - b[1]) <= 0
    /\ (q[2] - a[2]) * (q[2] - b[2]) <= 0

\* cv2.fillPoly on a zero raster: it draws every edge of the contour as a
\* line (a single vertex is an edge to itself) and fills the inside by the
\* even-odd rule; the lines cover at least the pixels lying on the segments
FillPoly(poly) ==
    {q \in Pixels :
        \/ \E i \in DOMAIN poly : OnSegment(q, poly[i], poly[(i % Len(poly)) + 1])
        \/ (Len(poly) >= 3 /\ RayCast(poly, q[1], q[2], 1, Len(poly), FALSE))}

\* contains_point called on the vertex list rotated by k
ContainsPointCall(k) ==
    /\ geo.pc = "idle"
    /\ k \in {0} \cup (0..(Len(geo.polygon) - 1))
    /\ geo' = [geo EXCEPT !.pc = "contains", !.k = k,
                          !.inside = contains_point(Rotate(geo.polygon, k), geo.x, geo.y),
                          !.mask = {}, !.raised = FALSE]
    /\ UNCHANGED <<restVars, pf, vp, loops>>

\* get_mask (lines 48-54): np.zeros, then fillPoly with no test of the vertex
\* count; on an empty contour fillPoly either rejects the array or draws
\* nothing
GetMaskCall(rejected) ==
    /\ geo.pc = "idle"
    /\ rejected => geo.polygon = <<>>
    /\ geo' = [geo EXCEPT !.pc = "mask", !.k = 0, !.inside = FALSE,
                          !.raised = rejected,
                          !.mask = IF rejected THEN {} ELSE FillPoly(geo.polygon)]
    /\ UNCHANGED <<restVars, pf, vp, loops>>

InitGeometry ==
    /\ InitBase
    /\ InitIdleMerge /\ InitIdleSync /\ InitIdleUpdate /\ InitNoIdentity
    /\ InitIdleFrame /\ InitIdleVideo /\ InitIdleLoops
    /\ batch_size = 1
    /\ retry_attempts = 0
    /\ enabled = AllEnabled
    /\ store_file = NoFile
    /\ geo \in {[IdleGeo EXCEPT !.polygon = poly, !.x = x, !.y = y] :
                   poly \in Polygons, x \in TestCoords, y \in TestCoords}

NextGeometry ==
    \/ \E k \in 0..3 : ContainsPointCall(k)
    \/ \E rejected \in BOOLEAN : GetMaskCall(rejected)

SpecGeometry == InitGeometry /\ [][NextGeometry]_vars

\* ---- the background loops and their stop ----

\* start_background_sync lines 179-183: the sleep ends, _running is tested
\* and sync_zones() is called
BackgroundSyncDue ==
    /\ loops.sync_running
    /\ SyncCall

\* start_background_check lines 293-298: the sleep ends, _running is tested
\* and check_for_updates() is called
BackgroundCheckDue ==
    /\ loops.update_running
    /\ CheckStart("timer")

\* ZoneSyncClient.stop (lines 189-197), called by EdgeAgent.stop line 284:
\* the flag is cleared and the client closed; the task is not awaited
StopZoneSync ==
    /\ loops.sync_running
    /\ loops' = [loops EXCEPT !.sync_running = FALSE, !.sync_stopped = TRUE,
                              !.zones_at_stop = zones]
    /\ UNCHANGED <<restVars, pf, vp, geo>>

\* UpdateManager.stop (lines 310-318), called by EdgeAgent.stop line 288
\* after the zone sync client was stopped
StopUpdateManager ==
    /\ ~loops.sync_running
    /\ loops.update_running
    /\ loops' = [loops EXCEPT !.update_running = FALSE, !.update_stopped = TRUE,
                              !.pending_at_stop = pending_update,
                              !.config_at_stop = config_file]
    /\ UNCHANGED <<restVars, pf, vp, geo>>

\* main.py lines 207-209: start() leaves its loop and cancels the background
\* tasks; a task suspended in an await gets CancelledError and ends
CancelBackgroundTasks ==
    /\ loops.sync_stopped
    /\ syncPc \in {"get", "sleep"} \/ upc["timer"] \in {"check", "report"}
    /\ syncPc' = IF syncPc \in {"get", "sleep"} THEN "idle" ELSE syncPc
    /\ sy' = IF syncPc \in {"get", "sleep"} THEN IdleSync ELSE sy
    /\ upc' = [upc EXCEPT !["timer"] = "idle"]
    /\ ul' = [ul EXCEPT !["timer"] = IdleApply]
    /\ UNCHANGED <<syncs, pending_update, config_file, backup_files, auto_apply,
                   updateHistory, configVars, sideVars, mergeVars, lifecycleVars,
                   provVars, pause, pc, agentVars, sourceVars, transportVars, historyVars>>

\* what the backend answers in this run: to the zone GET a 200 with no zone
\* or with zone z1, a 500 or a timeout; to the update check one update or
\* none
LoopBodies ==
    {<<>>} \cup {<<a>> : a \in {b \in ZoneRecords : /\ b.zoneId = "z1"
                                                  /\ b.name = "hall"
                                                  /\ b.polygon = WholePolygon}}
LoopResponses ==
    {r \in Responses : r.kind = "timeout" \/ (r.kind = "status" /\ r.code \in {200, 500})}
LoopChecks ==
    {c \in CheckResponses : c.kind = "none" \/ (c.kind = "update" /\ c.update.config_patch = PatchA)}

\* both loops running: start_background_sync and start_background_check
\* have set _running (lines 175 and 289)
InitLoops ==
    /\ InitBase
    /\ InitIdleMerge /\ InitIdleSync
    /\ InitIdleFrame /\ InitIdleVideo /\ InitIdleGeo
    /\ batch_size = 1
    /\ retry_attempts = 0
    /\ enabled = AllEnabled
    /\ store_file = NoFile
    /\ credentials \in {NoCreds, StoredCreds(TRUE)}
    /\ update_manager = [constructed |-> TRUE, device_id |-> credentials.device_id]
    /\ pending_update = NoUpdate
    /\ config_file = NoConfig
    /\ backup_files = NoBackups
    /\ auto_apply \in BOOLEAN
    /\ upc = [c \in Callers |-> "idle"]
    /\ ul = [c \in Callers |-> IdleApply]
    /\ lastApply = NoApply
    /\ lastDiscovered = NoUpdate
    /\ appliedSince = FALSE
    /\ overwritten = {}
    /\ ops = 0
    /\ loops = [IdleLoops EXCEPT !.sync_running = TRUE, !.update_running = TRUE]

NextLoops ==
    \/ BackgroundSyncDue
    \/ \E r \in LoopResponses, data \in LoopBodies : SyncResponse(r, data)
    \/ SyncSleepDone
    \/ SyncReturn
    \/ BackgroundCheckDue
    \/ \E resp \in LoopChecks, fault \in Faults : CheckDone("timer", resp, fault)
    \/ ReportDone("timer")
    \/ StopZoneSync
    \/ StopUpdateManager
    \/ CancelBackgroundTasks

SpecLoops == InitLoops /\ [][NextLoops]_vars

TypeOK ==
    /\ pc \in [Tasks -> STRING]
    /\ lock \in {"none", "main", "stop"}
    /\ consecutive_errors \in 0..MaxErrors
    /\ Len(buffer) <= MaxSamples

(* =============================== claims =============================== *)

FlushPcs == {"flush_post", "flush_sleep", "flush_ret"}
Posting == {"flush_post", "flush_sleep"}

\* C1: when every POST of a flush gets a 5xx status, a timeout or a
\* connection error, the flush issues at most retry_attempts POSTs, the wait
\* after attempt number a (0-based) is 2^a seconds, so the waits strictly
\* increase, and the flush returns False.
C1_RetryBackoffBounded ==
    \A t \in Tasks :
        (pc[t] \in FlushPcs /\ fl[t].transient) =>
            LET w == fl[t].waits IN
            /\ fl[t].posts <= retry_attempts
            /\ \A i \in 1..Len(w) : w[i] = 2 ^ (i - 1)
            /\ \A i \in 1..(Len(w) - 1) : w[i] < w[i + 1]
            /\ (pc[t] = "flush_ret" /\ fl[t].payloads # <<>>) =>
                   /\ ~fl[t].result
                   /\ Len(w) = fl[t].posts

C1_Witness ==
    \E t \in Tasks :
        /\ pc[t] = "flush_ret"
        /\ fl[t].transient
        /\ fl[t].posts = retry_attempts
        /\ Len(fl[t].waits) >= 2
        /\ ~fl[t].result

\* C2: with batch_size >= 1, send_telemetry starts a flush exactly when its
\* append makes the buffer reach batch_size: the buffer never rests at
\* batch_size or more, and every flush started by a send carries exactly
\* batch_size samples.
C2_FlushExactlyAtBatchSize ==
    /\ Len(buffer) < batch_size
    /\ pc["main"] \in FlushPcs => Len(fl["main"].payloads) = batch_size

C2_Witness ==
    /\ pc["main"] = "flush_post"
    /\ batch_size >= 2
    /\ Len(fl["main"].payloads) = batch_size

\* C3: whenever a flush returns True the buffer holds no sample at that
\* moment, whatever the interleaving of send_telemetry and close.
C3_BufferEmptyOnSuccess ==
    \A t \in Tasks : (pc[t] = "flush_ret" /\ fl[t].result) => buffer = <<>>

C3_Witness ==
    /\ pc["main"] = "flush_ret"
    /\ fl["main"].result
    /\ fl["main"].payloads # <<>>
    /\ pc["stop"] = "close_wait"

\* C4 (as claimed): a flush whose POST is answered by any status 200..299
\* returns True and the buffer stays cleared.
C4_Any2xxIsSuccess ==
    \A t \in Tasks :
        (/\ pc[t] = "flush_ret"
         /\ fl[t].last.kind = "status"
         /\ fl[t].last.code >= 200
         /\ fl[t].last.code <= 299) =>
            fl[t].result /\ buffer = <<>>

\* C5: a batch whose flush failed is dropped: none of its samples is in the
\* buffer, and none of them is in the batch of a flush that is POSTing.
C5_FailedBatchDropped ==
    /\ Range(buffer) \cap dropped = {}
    /\ \A t \in Tasks : pc[t] \in Posting => Range(fl[t].payloads) \cap dropped = {}
    /\ \A t \in Tasks :
           (pc[t] = "flush_ret" /\ ~fl[t].result) => Range(fl[t].payloads) \subseteq dropped

C5_Witness ==
    /\ dropped # {}
    /\ \E t \in Tasks : pc[t] = "flush_post" /\ fl[t].payloads # <<>>

\* C6: a 4xx answer ends the flush at once: no backoff sleep follows it, no
\* further POST is issued and the flush returns False; when the first POST of
\* the batch gets it, the batch has had exactly one POST and no sleep.
C6_ClientErrorNotRetried ==
    \A t \in Tasks :
        /\ (/\ pc[t] \in FlushPcs
            /\ fl[t].last.kind = "status"
            /\ fl[t].last.code >= 400
            /\ fl[t].last.code <= 499) =>
               /\ pc[t] = "flush_ret"
               /\ ~fl[t].result
               /\ fl[t].posts = Len(fl[t].waits) + 1
               /\ fl[t].attempt = 0 => (fl[t].posts = 1 /\ fl[t].waits = <<>>)

C6_Witness ==
    \E t \in Tasks :
        /\ pc[t] = "flush_ret"
        /\ fl[t].last = [kind |-> "status", code |-> 404]
        /\ fl[t].posts = 1
        /\ fl[t].waits = <<>>

\* C7: close() flushes exactly the samples that are in the buffer when it
\* takes the lock, the HTTP client is released only after that flush has
\* returned, and a close on an empty buffer issues no POST.
C7_CloseFlushesThenReleases ==
    /\ pc["stop"] \in FlushPcs =>
           /\ closeLog.taken
           /\ fl["stop"].payloads = closeLog.snap
           /\ ~closeLog.released
    /\ pc["stop"] \in Posting => client /\ closeLog.snap # <<>>
    /\ lock = "stop" => buffer = <<>>
    /\ closeLog.released => closeLog.flushed /\ pc["stop"] = "stopped"
    /\ (closeLog.flushed /\ closeLog.snap = <<>>) => closeLog.posts = 0
    /\ (closeLog.flushed /\ closeLog.snap # <<>> /\ retry_attempts > 0) => closeLog.posts >= 1

C7_Witness ==
    /\ closeLog.released
    /\ closeLog.snap # <<>>
    /\ closeLog.posts >= 1

\* C8 (as claimed): while a flush is in progress (a POST in flight or a
\* backoff sleep), the main loop is not held up by the transport: it is
\* neither the task awaiting that POST or sleep, nor waiting for the lock.
C8_MainLoopNotHeldByFlush ==
    (\E t \in Tasks : pc[t] \in Posting) =>
        pc["main"] \notin (Posting \cup {"send_wait"})

\* C9 (as claimed): a forced disconnect+reconnect cycle happens only when
\* three connectivity-class failures have occurred since the last success,
\* never on the first or second, whatever other errors raised the counter.
C9_ReconnectOnlyAfterThreeConnectivityFailures ==
    pc["main"] = "reconnecting" => connStreak >= 3

IterationSucceeds ==
    /\ pc["main"] \in {"process", "send_wait", "flush_ret"}
    /\ pc'["main"] = "loop"

ForcedReconnectReturns == pc["main"] = "reconnecting" /\ pc'["main"] = "loop"

\* C10: the consecutive-error counter is reset to zero by every successful
\* iteration and by a successful forced reconnect, and by nothing else; a
\* failed reconnect leaves it as it is.
C10_CounterResetOnlyOnSuccess ==
    [][/\ IterationSucceeds => consecutive_errors' = 0
       /\ (ForcedReconnectReturns /\ connected') => consecutive_errors' = 0
       /\ (ForcedReconnectReturns /\ ~connected') => consecutive_errors' = consecutive_errors
       /\ (consecutive_errors # 0 /\ consecutive_errors' = 0) =>
              \/ IterationSucceeds
              \/ ForcedReconnectReturns /\ connected'
      ]_vars

C10_Witness ==
    /\ pc["main"] = "loop"
    /\ connected
    /\ consecutive_errors = 0
    /\ backoff_time = 8

\* C11 (as claimed): the sleep after an unexpected error is the one a
\* connectivity error with the same counter value gets, min(base *
\* 2^counter, cap).
C11_UnexpectedBackoffIsExponential ==
    pc["main"] = "backoff_unexp" => backoff_time = ConnectionBackoff(consecutive_errors)

ValueErrorHandled == pc["main"] = "process" /\ pc'["main"] = "pause_val"

\* C12: a ValueError in an iteration leaves the consecutive-error counter as
\* it is, is followed by the fixed pause of 0.5 s whatever the counter, and
\* the loop goes from that pause straight to its next iteration, without a
\* reconnect.
C12_ValueErrorKeepsCounter ==
    [][/\ ValueErrorHandled =>
              /\ consecutive_errors' = consecutive_errors
              /\ pause' = ValidationPause
              /\ backoff_time' = backoff_time
       /\ pc["main"] = "pause_val" =>
              /\ pc'["main"] \in {"pause_val", "loop"}
              /\ consecutive_errors' = consecutive_errors
              /\ pause = ValidationPause
      ]_vars

C12_Witness ==
    /\ pc["main"] = "pause_val"
    /\ consecutive_errors >= ReconnectThreshold
    /\ pause = ValidationPause
    /\ connected

\* C13 (as claimed): processing ends only on request: start() has returned
\* only when stop() has cleared the running flag; no failure other than an
\* unparseable configuration ends it.
C13_OnlyStopEndsProcessing ==
    pc["main"] = "returned" => ~running

Logged(e) == \E i \in 1..Len(startupLog) : startupLog[i] = e

\* every occurrence of b in the startup log has an a before it
Before(a, b) ==
    \A j \in 1..Len(startupLog) :
        startupLog[j] = b => \E i \in 1..(j - 1) : startupLog[i] = a

\* C14: startup is strictly ordered: ensure_registered has returned before
\* the UpdateManager is constructed, and the UpdateManager is bound to the
\* device id ensure_registered left; the immediate update check has returned
\* before the first zone sync starts; the first zone sync has returned before
\* the frame source connect starts; no background task exists before that
\* connect has returned.
C14_StartupOrder ==
    /\ enabled["provisioning"] =>
           /\ Before("ensure_registered_started", "ensure_registered_done")
           /\ Before("ensure_registered_done", "update_manager_constructed")
    /\ update_manager.constructed => update_manager.device_id = credentials.device_id
    /\ enabled["update"] =>
           /\ Before("update_manager_constructed", "update_check_started")
           /\ Before("update_check_done", "zone_sync_constructed")
           /\ Before("update_check_done", "zone_sync_started")
    /\ enabled["zone_sync"] => Before("zone_sync_done", "connect_started")
    /\ Before("zone_sync_constructed", "connect_started")
    /\ (\E b \in BackgroundTasks : background_tasks[b] # "none") =>
           Logged("connect_returned")

C14_Witness ==
    /\ enabled = AllEnabled
    /\ \A b \in BackgroundTasks : background_tasks[b] = "running"
    /\ update_manager.device_id > 1
    /\ Logged("zone_sync_done")
    /\ Logged("update_check_done")

TasksCancelled ==
    /\ \E b \in BackgroundTasks : background_tasks[b] = "cancelled"
    /\ \A b \in BackgroundTasks : background_tasks[b] # "running"

\* C15 (as claimed): shutdown is ordered: the running flag is cleared first;
\* the frame source is disconnected by stop() only after the transport has
\* been flushed and closed; the background tasks are cancelled only after
\* that; the identity and update clients are closed only after every
\* background task has been cancelled.
C15_ShutdownOrder ==
    /\ pc["stop"] # "idle" => ~running
    /\ pc["stop"] # "idle" => closeLog.released
    /\ TasksCancelled => closeLog.released
    /\ components_stopped => \A b \in BackgroundTasks : background_tasks[b] # "running"

StoredRegistered == store_file.state = "ok" /\ store_file.creds.registered

ValidationAnswered == provPc = "validating" /\ provPc' # "validating"

\* C16: with stored credentials marked registered, a call of
\* ensure_registered whose validation the backend answers with 200 returns
\* success with the stored device_id, sends no registration request and
\* leaves store and credentials as they are; and whatever the calls, a store
\* holding registered credentials keeps its device_id and device_secret.
C16_ValidCredentialsIdempotent ==
    [][/\ (ValidationAnswered /\ StoredRegistered /\ ens'.validation = [kind |-> "status", code |-> 200]) =>
              /\ provPc' = "idle"
              /\ ens'.result = "success"
              /\ ens'.device_id = store_file.creds.device_id
              /\ ens'.posts = 0
              /\ store_file' = store_file
              /\ credentials' = credentials
       /\ StoredRegistered =>
              /\ store_file'.state = "ok"
              /\ store_file'.creds.device_id = store_file.creds.device_id
              /\ store_file'.creds.device_secret = store_file.creds.device_secret
      ]_vars

C16_Witness ==
    /\ calls >= 2
    /\ provPc = "idle"
    /\ ens.validation = [kind |-> "status", code |-> 200]
    /\ ens.result = "success"
    /\ ens.device_id = 1
    /\ ens.posts = 0
    /\ issued = {<<1, 1>>}

\* C17 (as claimed): across the calls of ensure_registered the identity
\* manager holds one device_id and device_secret only: the pair first loaded
\* or generated never gives way to another.
C17_CredentialsNeverRegenerated ==
    Cardinality(issued) <= 1

RegistrationFailed ==
    /\ provPc = "idle"
    /\ ens.registration # NoResponse
    /\ ens.result = "failure"

\* C18 (as claimed): when a call of ensure_registered has ended in a failed
\* registration, the store holds the credentials of that call with
\* registered = false, and the call returned a failure result.
C18_FailedRegistrationPersisted ==
    RegistrationFailed =>
        /\ store_file.state = "ok"
        /\ store_file.creds.device_id = credentials.device_id
        /\ store_file.creds.device_secret = credentials.device_secret
        /\ ~store_file.creds.registered

\* C19 (as claimed): when the stored credentials failed validation and the
\* re-registration failed too, the device is unregistered: is_registered is
\* false and the store does not hold credentials marked registered.
C19_UnregisteredAfterFailedValidation ==
    (RegistrationFailed /\ ens.validation # NoResponse) =>
        /\ ~IsRegistered
        /\ ~StoredRegistered

\* C20 (as claimed): once the device is registered, a request in flight from
\* the telemetry transport, the zone sync or the update coordinator carries
\* the auth headers of get_auth_headers.
C20_AuthHeadersOnRequests ==
    IsRegistered =>
        /\ (\E t \in Tasks : pc[t] = "flush_post") => AuthHeaders \subseteq TransportHeaders
        /\ pc["main"] = "zone_sync" => AuthHeaders \subseteq ZoneSyncHeaders
        /\ pc["main"] = "update_check" => AuthHeaders \subseteq UpdateHeaders

\* C30 (as claimed): after a failed read the live frame source is marked
\* disconnected and get_frame returns None at once: it never waits on a
\* reconnect of its own (the sleep and the connect of _reconnect).
C30_NoInternalReconnect ==
    pc["main"] \notin {"rc_sleep", "rc_connect"}

\* C24: the merged configuration has every key of the base and of the patch;
\* a key absent from the patch keeps the base value; a key whose base and
\* patch values are both mappings is merged key by key; in every other case
\* the patch value replaces the base value wholesale; and merging the same
\* patch into the result again changes nothing.
BothMappings(k) ==
    /\ k \in DOMAIN mg.base.kids /\ k \in DOMAIN mg.patch.kids
    /\ ~mg.base.kids[k].leaf /\ ~mg.patch.kids[k].leaf
C24_DeepMerge ==
    mg.done =>
        /\ ~mg.result.leaf
        /\ DOMAIN mg.result.kids = DOMAIN mg.base.kids \cup DOMAIN mg.patch.kids
        /\ \A k \in DOMAIN mg.result.kids :
              /\ k \notin DOMAIN mg.patch.kids => mg.result.kids[k] = mg.base.kids[k]
              /\ (k \in DOMAIN mg.patch.kids /\ ~BothMappings(k))
                    => mg.result.kids[k] = mg.patch.kids[k]
              /\ BothMappings(k) =>
                    LET b == mg.base.kids[k].kids
                        p == mg.patch.kids[k].kids
                        r == mg.result.kids[k] IN
                    /\ ~r.leaf
                    /\ DOMAIN r.kids = DOMAIN b \cup DOMAIN p
                    /\ \A j \in DOMAIN r.kids :
                          r.kids[j] = IF j \in DOMAIN p THEN p[j] ELSE b[j]
        /\ mg.again = mg.result
C24_Witness ==
    /\ mg.done
    /\ BothMappings("a")
    /\ DOMAIN mg.base.kids["a"].kids = {"a", "b"}
    /\ DOMAIN mg.patch.kids["a"].kids = {"b"}
    /\ mg.base.kids["a"].kids["b"] # mg.patch.kids["a"].kids["b"]
    /\ "b" \in DOMAIN mg.base.kids /\ ~mg.base.kids["b"].leaf
    /\ "b" \in DOMAIN mg.patch.kids /\ mg.patch.kids["b"].leaf

\* ---- zone sync: C27, C28, C29 ----
SyncSucceeded == syncPc = "done" /\ sy.result = "zones"
\* the last record of the response carrying id (0: none), among all records
\* or among those with a name
LastRecord(id, named) ==
    LET hits == {i \in DOMAIN sy.data :
                    sy.data[i].zoneId = id /\ (named => sy.data[i].name # NullName)} IN
    IF hits = {} THEN 0 ELSE CHOOSE i \in hits : \A j \in hits : j <= i
\* a stored pixel is the supplied coordinate (half pixels) itself
SamePixel(h, px) == 2 * px = h
\* a stored pixel is the supplied coordinate cut to a whole pixel toward zero
TruncatedPixel(h, px) ==
    IF h >= 0 THEN 2 * px <= h /\ h < 2 * px + 2 ELSE h <= 2 * px /\ 2 * px - 2 < h
ProfileKept(rec, z) ==
    /\ z.max_capacity = rec.maxCapacity
    /\ z.yellow_threshold = rec.yellowThreshold
    /\ z.red_threshold = rec.redThreshold
Entry(reg, id) == IF ZoneIndex(reg, id) = 0 THEN <<>> ELSE <<reg[ZoneIndex(reg, id)]>>
RegistryIds(reg) == [i \in DOMAIN reg |-> reg[i].zone_id]

\* C27 (as claimed): after a successful sync every zone of the response is
\* retrievable by id with exactly the supplied polygon, capacity and
\* thresholds, and zones absent from the response are kept.
C27_ExactUpsert ==
    SyncSucceeded =>
        \A id \in ZoneIds :
            LET i == LastRecord(id, FALSE)
                k == ZoneIndex(zones, id) IN
            IF i = 0 THEN Entry(zones, id) = Entry(sy.before, id)
            ELSE /\ k # 0
                 /\ ProfileKept(sy.data[i], zones[k])
                 /\ DOMAIN zones[k].polygon = DOMAIN sy.data[i].polygon
                 /\ \A j \in DOMAIN zones[k].polygon :
                       /\ SamePixel(sy.data[i].polygon[j][1], zones[k].polygon[j][1])
                       /\ SamePixel(sy.data[i].polygon[j][2], zones[k].polygon[j][2])

\* C27 (amended): after a successful sync the registry is the previous one
\* with each record that parses upserted by id. Such a zone is retrievable by
\* id with the supplied capacity and thresholds and with the supplied polygon,
\* each coordinate cut to a whole pixel toward zero; an existing entry is
\* replaced where it stood; a zone with no parsed record in the response
\* (absent, or only in records with a null name) is as it was; new zones
\* follow the old ones; and from an empty registry two parsed records with
\* distinct ids leave exactly those two, in the order of the response.
C27_UpsertParsed ==
    SyncSucceeded =>
        /\ \A id \in ZoneIds :
              LET i == LastRecord(id, TRUE)
                  k == ZoneIndex(zones, id) IN
              IF i = 0 THEN Entry(zones, id) = Entry(sy.before, id)
              ELSE /\ k # 0
                   /\ ProfileKept(sy.data[i], zones[k])
                   /\ DOMAIN zones[k].polygon = DOMAIN sy.data[i].polygon
                   /\ \A j \in DOMAIN zones[k].polygon :
                         /\ TruncatedPixel(sy.data[i].polygon[j][1], zones[k].polygon[j][1])
                         /\ TruncatedPixel(sy.data[i].polygon[j][2], zones[k].polygon[j][2])
        /\ \A a, b \in DOMAIN zones : zones[a].zone_id = zones[b].zone_id => a = b
        /\ Len(sy.before) <= Len(zones)
        /\ SubSeq(RegistryIds(zones), 1, Len(sy.before)) = RegistryIds(sy.before)
        /\ (/\ sy.before = <<>>
            /\ Len(sy.data) = 2
            /\ sy.data[1].zoneId # sy.data[2].zoneId
            /\ sy.data[1].name # NullName /\ sy.data[2].name # NullName)
              => RegistryIds(zones) = <<sy.data[1].zoneId, sy.data[2].zoneId>>
C27_Witness ==
    /\ SyncSucceeded
    /\ RegistryIds(sy.before) = <<"z2", "z1">>
    /\ Len(sy.data) = 1
    /\ sy.data[1].zoneId = "z2"
    /\ sy.data[1].polygon = FractionalPolygon
    /\ zones[1] # sy.before[1]
    /\ zones[2] = sy.before[2]

\* C28: one sync cycle sends at most retry_attempts GETs; after a timeout or
\* a connection error it waits 2^attempt seconds (1, 2, 4) before the next
\* attempt; and when the attempts are used up it returns an empty list and
\* the registry is as it was when the cycle began.
C28_RetryThenGiveUp ==
    /\ sy.gets <= zone_sync_retry_attempts
    /\ (syncPc \in {"sleep", "get"} /\ sy.last.kind \in {"timeout", "connect"})
          => /\ sy.waits # <<>>
             /\ sy.waits[Len(sy.waits)] = 2 ^ (sy.gets - 1)
    /\ (syncPc = "get" /\ sy.gets > 0) => sy.gets = sy.attempt
    /\ (syncPc = "done" /\ sy.attempt = zone_sync_retry_attempts)
          => /\ sy.gets = zone_sync_retry_attempts
             /\ sy.result = "empty"
             /\ zones = sy.before
C28_Witness ==
    /\ syncPc = "done"
    /\ sy.gets = zone_sync_retry_attempts
    /\ sy.waits = <<1, 2, 4>>
    /\ sy.result = "empty"
    /\ sy.before # <<>>

\* C29: a 404 ends the cycle at once: an empty list is returned, logged as
\* information and not as an error, no other GET follows in that cycle, and
\* the registry is as it was when the cycle began.
C29_NotFoundIsEmpty ==
    (sy.last.kind = "status" /\ sy.last.code = 404) =>
        /\ syncPc = "done"
        /\ sy.result = "empty"
        /\ sy.logged = "info"
        /\ zones = sy.before
C29_Witness ==
    /\ syncPc = "done"
    /\ sy.last.kind = "status" /\ sy.last.code = 404
    /\ sy.gets = 2
    /\ sy.before # <<>>

\* ---- updates: C21, C22, C23, C25, C26 ----
ApplyReturned == lastApply.seq > 0

\* C21: apply_pending_update clears the pending update exactly when the apply
\* succeeded. When it returns success nothing is pending; when it returns
\* failure (a fault, or an update without a patch) and no other call assigned
\* the pending update meanwhile, the update it tried is still the pending
\* one; and a pending update never disappears except at the return of a
\* successful apply.
C21_ClearedIffApplied ==
    /\ [](ApplyReturned =>
            /\ lastApply.success => lastApply.after = NoUpdate
            /\ (~lastApply.success /\ ~lastApply.interfered)
                  => lastApply.after = lastApply.update /\ lastApply.after # NoUpdate)
    /\ [][(pending_update # NoUpdate /\ pending_update' = NoUpdate)
             => lastApply'.seq = lastApply.seq + 1 /\ lastApply'.success]_vars
C21_Witness ==
    /\ ApplyReturned
    /\ ~lastApply.success
    /\ ~HasPatch(lastApply.update)
    /\ pending_update = lastApply.update

\* C22: the one pending update is the update found by the latest check that
\* found one, unless a successful apply has returned since and nothing is
\* pending; and a check that fails or finds no update leaves the pending
\* update as it was.
C22_PendingIsLatestDiscovered ==
    /\ [](pending_update = lastDiscovered \/ (pending_update = NoUpdate /\ appliedSince))
    /\ [][\A c \in Callers, resp \in CheckResponses :
             (CheckDone(c, resp, "none") /\ resp.kind # "update")
                 => pending_update' = pending_update]_vars
C22_Witness ==
    /\ ApplyReturned
    /\ lastApply.success
    /\ pending_update # NoUpdate
    /\ pending_update # lastApply.update
    /\ upc = [c \in Callers |-> "idle"]

\* C23 (as claimed): every configuration that a successful apply has
\* overwritten is still the content of some backup file.
C23_EveryBackupRetrievable ==
    \A t \in overwritten : \E n \in DOMAIN backup_files : backup_files[n] = t

\* C25: the background loop calls apply only when auto_apply is set and the
\* check it has just completed found an update with a patch; and with
\* auto_apply off no step of the background loop changes the configuration
\* file, its backups, or makes a pending update not pending.
TimerApplyCalled ==
    upc["timer"] = "check" /\ (upc'["timer"] = "report" \/ lastApply'.seq # lastApply.seq)
C25_BackgroundApplyOnlyWhenEnabled ==
    [][/\ \A resp \in CheckResponses, fault \in Faults :
             (CheckDone("timer", resp, fault) /\ TimerApplyCalled)
                 => auto_apply /\ resp.kind = "update" /\ HasPatch(resp.update)
       /\ (upc'["timer"] # upc["timer"] /\ ~auto_apply)
             => /\ config_file' = config_file
                /\ backup_files' = backup_files
                /\ pending_update' = NoUpdate => pending_update = NoUpdate]_vars
C25_Witness ==
    /\ auto_apply
    /\ ApplyReturned
    /\ lastApply.caller = "timer"
    /\ lastApply.success
    /\ config_file = ConfigWith(PatchB)

\* C26 (as claimed): every apply attempt has sent a report carrying its
\* outcome, the current version and the version of the update.
ReportCarries(report) ==
    /\ report.success = lastApply.success
    /\ report.fromVersion = CURRENT_VERSION
    /\ report.toVersion = lastApply.update.version
C26_EveryAttemptReported ==
    ApplyReturned => lastApply.report # NoReport /\ ReportCarries(lastApply.report)

\* C26 (amended): an apply attempt of a manager that holds a device id,
\* registered or not, has sent the report carrying that id, its outcome, the
\* current version and the version of the update; an attempt of a manager
\* without a device id has sent none.
C26_ReportedWhenIdentified ==
    ApplyReturned =>
        IF credentials.device_id # 0
        THEN /\ lastApply.report # NoReport
             /\ ReportCarries(lastApply.report)
             /\ lastApply.report.deviceId = credentials.device_id
        ELSE lastApply.report = NoReport
C26_Witness ==
    /\ ApplyReturned
    /\ credentials.device_id # 0
    /\ ~credentials.registered
    /\ ~lastApply.success
    /\ lastApply.report # NoReport

\* C35: a connectivity-class failure adds one to the consecutive-error
\* counter and sleeps min(1 * 2^counter, 60) seconds, counter being the
\* incremented value: 2, 4, 8, 16, 32 seconds for the counter values 1 to 5,
\* 60 from 6 on, never more than 60.
ConnectivityFailureHandled == pc["main"] = "process" /\ pc'["main"] = "backoff_conn"
C35_ConnectivityBackoff ==
    [][ConnectivityFailureHandled =>
          /\ consecutive_errors' = consecutive_errors + 1
          /\ backoff_time' = CASE consecutive_errors' = 1 -> 2
                               [] consecutive_errors' = 2 -> 4
                               [] consecutive_errors' = 3 -> 8
                               [] consecutive_errors' = 4 -> 16
                               [] consecutive_errors' = 5 -> 32
                               [] OTHER -> 60
          /\ backoff_time' <= 60]_vars
C35_Witness ==
    /\ pc["main"] = "backoff_conn"
    /\ consecutive_errors = 6
    /\ backoff_time = 60

\* C37 (as claimed): when apply_pending_update comes back from its report and
\* finds another update pending than the one it applied, that update is
\* still pending when the call returns.
C37_NewerUpdateSurvivesApply ==
    (ApplyReturned /\ lastApply.before # lastApply.update)
        => lastApply.after = lastApply.before

\* C39 (as claimed): once stop() has completed and the main loop has exited,
\* the transport buffer is empty.
AgentDown == pc["stop"] = "stopped" /\ pc["main"] = "returned"
C39_NothingStrandedAtShutdown ==
    AgentDown => buffer = <<>>

\* C40 (as claimed): once start() has returned after a stop(), every
\* background task that was launched is cancelled and the frame source is
\* disconnected, whenever in the agent's life the stop() came.
C40_StoppedMeansReleased ==
    AgentDown =>
        /\ \A b \in BackgroundTasks : background_tasks[b] # "running"
        /\ ~connected
        /\ cap # "open"

\* C38 (as claimed): a live stream whose read failed never stays forever
\* disconnected with no reconnect attempted: from every state where the main
\* loop runs on a disconnected source, the source becomes connected again or
\* a connect is attempted.
SourceDown == running /\ ~connected /\ pc["main"] = "sleep_none"
ConnectAttempted == pc["main"] \in {"rc_connect", "reconnecting"}
C38_LiveStreamRecovers == SourceDown ~> (connected \/ ConnectAttempted)

\* C36 (as claimed): the extractor is called once per zone of the list taken
\* at dispatch (once for the camera-level zone when the registry is empty),
\* and every sample handed to the transport is the extractor's output with
\* only the zone id replaced: person_count and every other field are kept.
C36_OnlyZoneIdReplaced ==
    /\ pf.pc = "done" => pf.extracts = Len(pf.dispatched)
    /\ \A i \in DOMAIN pf.handed :
          pf.handed[i].sample = [pf.handed[i].out EXCEPT !.zone_id = pf.handed[i].zone]

\* C31 (as claimed): processing a finite file terminates: once the file is
\* open, the run eventually leaves the loop, reports completion and
\* disconnects, also when the reads stop before the reported frame count or
\* the reported count is 0.
C31_FileProcessingTerminates ==
    (vp.pc = "loop") ~> (vp.pc = "done" /\ vp.completed /\ ~vp.connected)

\* C33: for a polygon of at least 3 vertices and a fixed test point,
\* contains_point gives the same answer on every cyclic rotation of the
\* vertex list, and false for every point outside the polygon's bounding box.
OutsideBox(poly, x, y) ==
    \/ \A i \in DOMAIN poly : x < poly[i][1]
    \/ \A i \in DOMAIN poly : x > poly[i][1]
    \/ \A i \in DOMAIN poly : y < poly[i][2]
    \/ \A i \in DOMAIN poly : y > poly[i][2]
C33_RotationInvariant ==
    (geo.pc = "contains" /\ Len(geo.polygon) >= 3) =>
        /\ geo.inside = contains_point(geo.polygon, geo.x, geo.y)
        /\ OutsideBox(geo.polygon, geo.x, geo.y) => ~geo.inside
C33_Witness ==
    /\ geo.pc = "contains"
    /\ geo.polygon = Arrow
    /\ geo.k = 2
    /\ geo.x = 1 /\ geo.y = 1
    /\ geo.inside

\* C34 (as claimed): for a polygon of 0, 1 or 2 vertices contains_point is
\* false for every point and get_mask returns an all-zero raster without
\* raising.
C34_DegeneratePolygonEmpty ==
    Len(geo.polygon) < 3 =>
        /\ geo.pc = "contains" => ~geo.inside
        /\ geo.pc = "mask" => (geo.mask = {} /\ ~geo.raised)

\* C32 (as claimed): once a background loop has been told to stop, the
\* result of a request in flight at that moment is not acted upon: the zone
\* registry is as it was when the zone sync was stopped, and the pending
\* update and the configuration file are as they were when the update
\* manager was stopped.
C32_NoEffectAfterStop ==
    /\ loops.sync_stopped => zones = loops.zones_at_stop
    /\ loops.update_stopped =>
          /\ pending_update = loops.pending_at_stop
          /\ config_file = loops.config_at_stop

==============================================================================
